---- MODULE Spec2Model ----
(***************************************************************************)
(* A model of tortoise-march: the schema snapshot (FieldState, ModelState,  *)
(* ProjectState), the differ (diff_states), the operations' mutate_state,   *)
(* the safety validation of makemigrations and the migrate runner.          *)
(*                                                                          *)
(* Python values are encoded as strings: None is "None", the booleans are   *)
(* "True" and "False", numbers are their decimal spelling.  A dict is a     *)
(* function whose DOMAIN is its key set, so a missing key and a key bound   *)
(* to None stay different, as in Python.                                    *)
(***************************************************************************)
EXTENDS Integers, Sequences, FiniteSets, TLC

VARIABLES
    from_state,   \* diff: the old ProjectState (A)
    to_state,     \* diff: the new ProjectState (B)
    rename_map,   \* diff: confirmed field renames, model -> <<old, new>> pairs
    dpc,          \* diff: "init", "diffed", "raised" (diff_states raised)
    ops,          \* diff: the operation list returned by diff_states
    derr,         \* diff: the error diff_states raised ("" when none)
    cur,          \* fold: the ProjectState being mutated
    pos,          \* fold: number of operations folded so far
    ferr,         \* fold: the error mutate_state raised ("" when none)
    registry,     \* migrate: the committed rows of the applied-migrations table
    db_schema,    \* migrate: the committed effects of the statements executed
    tx,           \* migrate: the open transaction's view of the database
    mpc,          \* migrate: "idle", "route", "tx", "done", "failed"
    margs,        \* migrate: the arguments [sql, fake, target, location] of
                  \*          the run, location being the files of the directory
    applied,      \* migrate: the local "applied", read when the run starts
    direction,    \* migrate: the direction plan_route returned
    names,        \* migrate: the migrations of the route still to process
    opi,          \* migrate: operations of the current migration executed
    mlog,         \* migrate: what the run reported, <<what, name>> per step
    sql_accum,    \* migrate: the statements rendered under sql=True
    invoked,      \* migrate: the RunPython callables the run has invoked
    merr,         \* migrate: the exception that ended the run ("" when none)
    runs,         \* migrate: number of runs started
    files,        \* make: the migration files, [number, operations] each
    app_models,   \* make: the project's models, as the extractor returns them
    edited,       \* make: the models were edited since makemigrations last ran
    kin,          \* make: the arguments and the answers typed at the prompts
    kout,         \* make: how the last run ended: "none", "written", "noop",
                  \*       "scaffold", "raised"
    kops,         \* make: the operation list the last run computed
    kerr,         \* make: the exception the last run raised ("" when none)
    kruns,        \* make: number of runs of makemigrations
    edits,        \* make: number of edits of the models
    batch,        \* validate: the operation batch handed to the validators
    vpc,          \* validate: "idle", "init", "checked"
    verdict,      \* validate: what the non-nullable guard raised ("" when nothing)
    verdict_alter, \* validate: what _validate_safe_alters raised
    uops,         \* unapply: the operations of the migration being reverted
    upos,         \* unapply: operations of it already reverted
    usql,         \* unapply: the statements executed on the connection
    uerr,         \* unapply: the exception that ended the call ("" when none)
    umode,        \* unapply: the classmethod called, "apply" or "unapply"
    ucalls,       \* unapply: the operations called so far, in call order
    upc,          \* unapply: "idle", "running", "done", "raised"
    rfiles,       \* round trip: Migration.operations of every migration file
    rdb,          \* round trip: the tables and indexes of the database
    rreg,         \* round trip: the names the recorder holds
    rpc,          \* round trip: "idle", "running", "failed"
    rroute,       \* round trip: the target, direction and names of the run
    rhist,        \* round trip: the runs that returned, with what they left
    table_rows,   \* recorder: the committed rows of the registry table, by id
    sessions      \* recorder: the concurrent runs of migrate, one per session

diffVars == <<from_state, to_state, rename_map, dpc, ops, derr, cur, pos, ferr>>

migVars == <<registry, db_schema, tx, mpc, margs, applied, direction, names,
             opi, mlog, sql_accum, invoked, merr, runs>>

makeVars == <<files, app_models, edited, kin, kout, kops, kerr, kruns, edits>>

valVars == <<batch, vpc, verdict, verdict_alter>>

unVars == <<uops, upos, usql, uerr, upc, umode, ucalls>>

rtVars == <<rfiles, rdb, rreg, rpc, rroute, rhist>>

recVars == <<table_rows, sessions>>

vars == <<diffVars, migVars, makeVars, valVars, unVars, rtVars, recVars>>

----------------------------------------------------------------------------
(* Python values *)

None == "None"
PyTrue == "True"
PyFalse == "False"

\* bool(v): None, False and the empty string are falsy
Truthy(v) == v \notin {None, PyFalse, ""}

\* d.get(k)
Get(d, k) == IF k \in DOMAIN d THEN d[k] ELSE None

\* d[k] = v
Put(d, k, v) == (k :> v) @@ d

\* d.pop(k, None) for every k of ks
Pop(d, ks) == [k \in (DOMAIN d) \ ks |-> d[k]]

EmptyDict == [k \in {} |-> None]

Range(s) == {s[i] : i \in DOMAIN s}

Max2(a, b) == IF a >= b THEN a ELSE b

RECURSIVE Reversed(_)
Reversed(s) == IF s = <<>> THEN <<>> ELSE Append(Reversed(Tail(s)), Head(s))

RECURSIVE Concat(_)
Concat(ss) == IF ss = <<>> THEN <<>> ELSE Head(ss) \o Concat(Tail(ss))

----------------------------------------------------------------------------
(* The identifiers of the model, in Python's string order (code points),   *)
(* and their characters: TLC neither orders strings nor indexes them.       *)

SortedIdentifiers ==
    << "Author", "Book", "Writer",
       "age", "author", "author_id", "book", "book_id", "books", "id",
       "name", "parent", "parent_id", "title", "ttl", "writer", "writer_id" >>

Identifiers == Range(SortedIdentifiers)

Ord == [s \in Identifiers |->
          CHOOSE i \in DOMAIN SortedIdentifiers : SortedIdentifiers[i] = s]

\* a < b on str
StrLess(a, b) == Ord[a] < Ord[b]

\* tuple(a) < tuple(b) on tuples of str
RECURSIVE TupleLess(_, _)
TupleLess(a, b) ==
    IF b = <<>> THEN FALSE
    ELSE IF a = <<>> THEN TRUE
    ELSE IF Head(a) # Head(b) THEN StrLess(Head(a), Head(b))
    ELSE TupleLess(Tail(a), Tail(b))

\* sorted(S) for a set of str
RECURSIVE Sorted(_)
Sorted(S) ==
    IF S = {} THEN <<>>
    ELSE LET m == CHOOSE x \in S : \A y \in S : Ord[x] <= Ord[y]
         IN <<m>> \o Sorted(S \ {m})

Chars ==
    [s \in Identifiers |->
       CASE s = "Author"    -> <<"A", "u", "t", "h", "o", "r">>
         [] s = "Book"      -> <<"B", "o", "o", "k">>
         [] s = "Writer"    -> <<"W", "r", "i", "t", "e", "r">>
         [] s = "age"       -> <<"a", "g", "e">>
         [] s = "author"    -> <<"a", "u", "t", "h", "o", "r">>
         [] s = "author_id" -> <<"a", "u", "t", "h", "o", "r", "_", "i", "d">>
         [] s = "book"      -> <<"b", "o", "o", "k">>
         [] s = "book_id"   -> <<"b", "o", "o", "k", "_", "i", "d">>
         [] s = "books"     -> <<"b", "o", "o", "k", "s">>
         [] s = "id"        -> <<"i", "d">>
         [] s = "name"      -> <<"n", "a", "m", "e">>
         [] s = "parent"    -> <<"p", "a", "r", "e", "n", "t">>
         [] s = "parent_id" -> <<"p", "a", "r", "e", "n", "t", "_", "i", "d">>
         [] s = "title"     -> <<"t", "i", "t", "l", "e">>
         [] s = "ttl"       -> <<"t", "t", "l">>
         [] s = "writer"    -> <<"w", "r", "i", "t", "e", "r">>
         [] s = "writer_id" -> <<"w", "r", "i", "t", "e", "r", "_", "i", "d">> ]

\* ch.lower()
LowerChar(ch) ==
    CASE ch = "A" -> "a" [] ch = "B" -> "b" [] ch = "W" -> "w" [] OTHER -> ch

\* [ch.lower() for ch in cs]
Lowered(cs) == [i \in DOMAIN cs |-> LowerChar(cs[i])]

\* the identifier that table spells cs, or fallback when it spells none so
NameOf(table, cs, fallback) ==
    IF \E s \in DOMAIN table : table[s] = cs
    THEN CHOOSE s \in DOMAIN table : table[s] = cs
    ELSE fallback

\* name.lower(), on the spelling table gives
LowerIn(table, name) == NameOf(table, Lowered(table[name]), name)

\* name.lower()
_lc(name) == LowerIn(Chars, name)

\* ch.isalnum()
IsAlnum(ch) == ch \notin {"_", " "}

----------------------------------------------------------------------------
(* model_state.py: the schema snapshot *)

OptionKeys ==
    { "null", "default", "unique", "index", "primary_key", "db_column",
      "max_length", "max_digits", "decimal_places", "auto_now",
      "auto_now_add", "related_table", "related_model", "to_field",
      "on_delete", "referenced_type" }

\* the dataclass defaults of FieldState
DefaultOptions ==
    [k \in OptionKeys |->
       IF k \in {"null", "unique", "index", "primary_key", "auto_now",
                 "auto_now_add"}
       THEN PyFalse ELSE None]

\* FieldState(name=..., field_type=..., **opts); .options is every attribute
\* but name and field_type
FieldState(name, field_type, opts) ==
    [name |-> name, field_type |-> field_type, options |-> opts @@ DefaultOptions]

\* meta["indexes"] is a list of (columns, unique); meta None or {} is no index
ModelState(name, db_table, field_states, indexes) ==
    [name |-> name, db_table |-> db_table, field_states |-> field_states,
     meta |-> [indexes |-> indexes]]

\* ProjectState.model_states: model name -> ModelState
EmptyProjectState == [n \in {} |-> None]

----------------------------------------------------------------------------
(* schema_filtering.py *)

FK_TYPES == {"ForeignKeyFieldInstance", "OneToOneFieldInstance"}

NON_SCHEMA_FIELD_TYPES ==
    { "BackwardFKRelation", "BackwardOneToOneRelation",
      "BackwardManyToManyRelation", "ManyToManyFieldInstance",
      "ManyToManyRelation" }

is_schema_field_type(field_type) == field_type \notin NON_SCHEMA_FIELD_TYPES

\* An Enum member used as a default, and its .value
EnumMembers == {"Status.ACTIVE"}
EnumValue(v) == IF v = "Status.ACTIVE" THEN "active" ELSE v

\* Enum members become their value; str, bool, None and "callable" pass
_value_for_migration_code(v) == IF v \in EnumMembers THEN EnumValue(v) ELSE v

compact_opts_for_code(opts) ==
    LET kept == {k \in DOMAIN opts :
                   /\ opts[k] # None
                   /\ ~(opts[k] = PyFalse /\ k # "default")}
    IN [k \in kept |-> _value_for_migration_code(opts[k])]

\* column_sort_key(fs): (group, rank, column)
column_sort_key(fs) ==
    LET Key(col) ==
            IF Truthy(fs.options["primary_key"]) THEN <<0, 0, col>>
            ELSE IF fs.name = "created_at" THEN <<1, 0, col>>
            ELSE IF fs.name = "updated_at" THEN <<1, 1, col>>
            ELSE IF fs.name = "deleted_at" THEN <<1, 2, col>>
            ELSE IF fs.name \in {"creator", "created_by"} THEN <<2, 0, col>>
            ELSE IF fs.name \in {"updater", "updated_by"} THEN <<2, 1, col>>
            ELSE IF fs.name \in {"deleter", "deleted_by"} THEN <<2, 2, col>>
            ELSE IF fs.field_type \in FK_TYPES THEN <<4, 0, col>>
            ELSE <<3, 0, col>>
    IN Key(_lc(IF Truthy(fs.options["db_column"])
               THEN fs.options["db_column"] ELSE fs.name))

SortKeyLess(a, b) ==
    \/ a[1] < b[1]
    \/ a[1] = b[1] /\ a[2] < b[2]
    \/ a[1] = b[1] /\ a[2] = b[2] /\ StrLess(a[3], b[3])

\* field_list.sort(key=column_sort_key), for fields of distinct sort keys
RECURSIVE SortedFields(_)
SortedFields(S) ==
    IF S = {} THEN <<>>
    ELSE LET First(m) == <<m>> \o SortedFields(S \ {m})
         IN First(CHOOSE x \in S :
                    \A y \in S : ~SortKeyLess(column_sort_key(y), column_sort_key(x)))

----------------------------------------------------------------------------
(* differ.py: helpers *)

\* opts.setdefault(k, v)
SetDefault(opts, k, v) == IF k \in DOMAIN opts THEN opts ELSE Put(opts, k, v)

\* opts[k] = opts.get(k) or v
OrElse(opts, k, v) == Put(opts, k, IF Truthy(Get(opts, k)) THEN opts[k] ELSE v)

_options_with_type(fs) ==
    SetDefault(Put(fs.options, "default", EnumValue(fs.options["default"])),
               "type", fs.field_type)

_options_for_alter(fs) ==
    LET PrimaryKey(o) ==
            IF Truthy(Get(o, "primary_key"))
            THEN Pop(o, {"unique", "index", "null"}) ELSE o
        OneToOne(o) ==
            IF fs.field_type = "OneToOneFieldInstance"
            THEN Put(o, "unique", PyTrue) ELSE o
        ForeignKey(o) ==
            IF fs.field_type \in FK_TYPES
            THEN OneToOne(
                   SetDefault(
                     OrElse(OrElse(OrElse(o, "db_column", fs.name \o "_id"),
                                   "to_field", "id"),
                            "on_delete", "CASCADE"),
                     "referenced_type", None))
            ELSE o
        CharLength(o) ==
            IF fs.field_type = "CharField" /\ Get(o, "max_length") = None
            THEN Put(o, "max_length", "255") ELSE o
    IN CharLength(ForeignKey(PrimaryKey(
          Put(Put(fs.options, "default", EnumValue(fs.options["default"])),
              "type", fs.field_type))))

\* a comparison that forgets the options
_same_except_name_TypeOnly(old_fs, new_fs) ==
    old_fs.field_type = new_fs.field_type

_same_except_name(old_fs, new_fs) ==
    /\ old_fs.field_type = new_fs.field_type
    /\ old_fs.options = new_fs.options

\* n.removesuffix("_id") on the characters of n
RemoveSuffixId(cs) ==
    IF Len(cs) >= 3 /\ SubSeq(cs, Len(cs) - 2, Len(cs)) = <<"_", "i", "d">>
    THEN SubSeq(cs, 1, Len(cs) - 3) ELSE cs

RECURSIVE LStrip(_)
LStrip(cs) == IF cs # <<>> /\ Head(cs) = " " THEN LStrip(Tail(cs)) ELSE cs

\* s.strip()
Strip(cs) == Reversed(LStrip(Reversed(LStrip(cs))))

\* _base_name(n), as the characters of the result
_base_name(n) ==
    LET Blanked(cs) == [i \in DOMAIN cs |-> IF IsAlnum(cs[i]) THEN cs[i] ELSE " "]
    IN Strip(Blanked(RemoveSuffixId(Lowered(Chars[n]))))

\* SequenceMatcher.find_longest_match(alo, ahi, blo, bhi), 0-based half-open:
\* the longest block, the earliest in a, then the earliest in b; k = 0 if none
find_longest_match(a, b, alo, ahi, blo, bhi) ==
    LET Better(s, t) ==
            \/ s[3] > t[3]
            \/ s[3] = t[3] /\ s[1] < t[1]
            \/ s[3] = t[3] /\ s[1] = t[1] /\ s[2] <= t[2]
        Longest(blocks) ==
            IF blocks = {} THEN <<alo, blo, 0>>
            ELSE CHOOSE s \in blocks : \A t \in blocks : Better(s, t)
    IN Longest({t \in (alo .. ahi - 1) \X (blo .. bhi - 1) \X (1 .. ahi - alo) :
                  /\ t[1] + t[3] <= ahi
                  /\ t[2] + t[3] <= bhi
                  /\ \A d \in 1 .. t[3] : a[t[1] + d] = b[t[2] + d]})

\* the total size of SequenceMatcher.get_matching_blocks()
RECURSIVE MatchCount(_, _, _, _, _, _)
MatchCount(a, b, alo, ahi, blo, bhi) ==
    IF alo >= ahi \/ blo >= bhi THEN 0
    ELSE LET Around(m) ==
                 IF m[3] = 0 THEN 0
                 ELSE m[3] + MatchCount(a, b, alo, m[1], blo, m[2])
                           + MatchCount(a, b, m[1] + m[3], ahi, m[2] + m[3], bhi)
         IN Around(find_longest_match(a, b, alo, ahi, blo, bhi))

\* SequenceMatcher(None, _base_name(a), _base_name(b)).ratio() as the
\* fraction <<2 * matches, len(a) + len(b)>>; 1.0 when both are empty
_name_similarity(a, b) ==
    LET Ratio(x, y) ==
            IF Len(x) + Len(y) = 0 THEN <<1, 1>>
            ELSE <<2 * MatchCount(x, y, 0, Len(x), 0, Len(y)), Len(x) + Len(y)>>
    IN Ratio(_base_name(a), _base_name(b))

_table_similarity(a, b) == _name_similarity(a, b)

\* every field key of a model, reverse relations and placeholders included
_schema_fields_All(ms) == DOMAIN ms.field_states

\* the schema-relevant field keys of a model
_schema_fields(ms) ==
    {k \in DOMAIN ms.field_states :
       is_schema_field_type(ms.field_states[k].field_type)}

\* the type of the primary-key field, None when the model has none
\* (the models here have at most one primary key)
_pk_field_type(ms) ==
    LET TypeOf(pks) ==
            IF pks = {} THEN None
            ELSE ms.field_states[CHOOSE k \in pks : TRUE].field_type
    IN TypeOf({k \in _schema_fields(ms) :
                 Truthy(ms.field_states[k].options["primary_key"])})

\* scores are exact fractions <<numerator, denominator>>
ScoreGt(s, t) == s[1] * t[2] > t[1] * s[2]

\* the threshold 0.90 of _detect_model_renames, as 9 / 10
ScoreAtLeastThreshold(s) == 10 * s[1] >= 9 * s[2]

_model_rename_score(old_ms, new_ms) ==
    LET SamePk(old_pk, new_pk) ==
            IF old_pk # None /\ new_pk # None /\ old_pk = new_pk THEN 1 ELSE 0
        \* min(1.0, num / den)
        Capped(num, den) == IF num > den THEN <<den, den>> ELSE <<num, den>>
        \* overlap + 0.2 * pk + 0.1 * cnt + 0.2 * similarity, overlap being
        \* matches / n
        Weighted(matches, n, pk, cnt, sim) ==
            Capped(10 * matches * sim[2] + 2 * pk * n * sim[2] + cnt * n * sim[2]
                     + 2 * sim[1] * n,
                   10 * n * sim[2])
        Score(old_fields, new_fields) ==
            IF old_fields = {} \/ new_fields = {} THEN <<0, 1>>
            ELSE Weighted(
                   Cardinality({k \in old_fields \cap new_fields :
                      old_ms.field_states[k].field_type
                        = new_ms.field_states[k].field_type}),
                   Max2(Cardinality(old_fields), Cardinality(new_fields)),
                   SamePk(_pk_field_type(old_ms), _pk_field_type(new_ms)),
                   IF Cardinality(old_fields) = Cardinality(new_fields) THEN 1 ELSE 0,
                   _table_similarity(old_ms.db_table, new_ms.db_table))
    IN Score(_schema_fields(old_ms), _schema_fields(new_ms))

----------------------------------------------------------------------------
(* differ.py: indexes *)

\* _physical_index_columns(ms, cols)
_physical_index_columns(ms, cols) ==
    LET Column(fs) ==
            IF Truthy(fs.options["db_column"]) THEN fs.options["db_column"]
            ELSE IF fs.field_type \in FK_TYPES THEN fs.name \o "_id"
            ELSE fs.name
        Physical(col, key) ==
            IF key \in DOMAIN ms.field_states
            THEN Column(ms.field_states[key]) ELSE col
    IN [i \in DOMAIN cols |-> Physical(cols[i], _lc(cols[i]))]

\* index entries are <<columns, unique>> with unique a BOOLEAN
_implicit_field_indexes(ms) ==
    {<<_physical_index_columns(ms, <<ms.field_states[k].name>>), FALSE>> :
       k \in {f \in DOMAIN ms.field_states :
                LET o == ms.field_states[f].options
                IN /\ Truthy(o["index"])
                   /\ ~Truthy(o["unique"])
                   /\ ~Truthy(o["primary_key"])}}

_model_indexes(ms) ==
    {<<_physical_index_columns(ms, ix[1]), ix[2]>> : ix \in Range(ms.meta.indexes)}
      \ _implicit_field_indexes(ms)

\* (cols, unique) < (cols', unique') on tuples
IndexLess(a, b) ==
    \/ TupleLess(a[1], b[1])
    \/ a[1] = b[1] /\ ~a[2] /\ b[2]

\* sorted(S) for a set of index entries
RECURSIVE SortedIndexes(_)
SortedIndexes(S) ==
    IF S = {} THEN <<>>
    ELSE LET First(m) == <<m>> \o SortedIndexes(S \ {m})
         IN First(CHOOSE x \in S : \A y \in S : x = y \/ IndexLess(x, y))

\* operations.default_index_name: "<table>_<col>_..._<suffix>", kept as its parts
default_index_name(db_table, columns, unique) ==
    <<_lc(db_table), [i \in DOMAIN columns |-> _lc(columns[i])],
      IF unique THEN "uniq" ELSE "idx">>

----------------------------------------------------------------------------
(* operations.py: the operation records *)

CreateModel(name, db_table, fields) ==
    [kind |-> "CreateModel", name |-> name, db_table |-> db_table,
     fields |-> fields]

\* CreateModel.from_model_state
from_model_state(ms) ==
    LET Listed(field_list) ==
            CreateModel(ms.name, ms.db_table,
              [i \in DOMAIN field_list |->
                 <<field_list[i].name, field_list[i].field_type,
                   compact_opts_for_code(field_list[i].options)>>])
    IN Listed(SortedFields({ms.field_states[k] : k \in _schema_fields(ms)}))

RenameModel(old_name, new_name, old_db_table, new_db_table) ==
    [kind |-> "RenameModel", old_name |-> old_name, new_name |-> new_name,
     old_db_table |-> old_db_table, new_db_table |-> new_db_table]

RemoveModel(name, db_table) ==
    [kind |-> "RemoveModel", name |-> name, db_table |-> db_table]

AddField(model_name, db_table, field_name, field_type, options) ==
    [kind |-> "AddField", model_name |-> model_name, db_table |-> db_table,
     field_name |-> field_name, field_type |-> field_type, options |-> options]

RemoveField(model_name, db_table, field_name, db_column) ==
    [kind |-> "RemoveField", model_name |-> model_name, db_table |-> db_table,
     field_name |-> field_name, db_column |-> db_column]

AlterField(model_name, db_table, field_name, old_options, new_options, new_name) ==
    [kind |-> "AlterField", model_name |-> model_name, db_table |-> db_table,
     field_name |-> field_name, old_options |-> old_options,
     new_options |-> new_options, new_name |-> new_name]

RenameField(model_name, db_table, old_name, new_name, old_db_column, new_db_column) ==
    [kind |-> "RenameField", model_name |-> model_name, db_table |-> db_table,
     old_name |-> old_name, new_name |-> new_name,
     old_db_column |-> old_db_column, new_db_column |-> new_db_column]

\* CreateIndex.__post_init__ fills the name
CreateIndex(model_name, db_table, columns, unique) ==
    [kind |-> "CreateIndex", model_name |-> model_name, db_table |-> db_table,
     columns |-> columns, unique |-> unique,
     name |-> default_index_name(db_table, columns, unique)]

RemoveIndex(model_name, db_table, name, columns, unique) ==
    [kind |-> "RemoveIndex", model_name |-> model_name, db_table |-> db_table,
     name |-> name, columns |-> columns, unique |-> unique]

----------------------------------------------------------------------------
(* differ.py: model renames and dependency order *)

\* one pass of "for name, ms in candidates.items(): if s > best[1]: best = ..."
\* score(name) is the score of the pair; best is <<name, score>>
RECURSIVE BestMatch(_, _, _, _, _)
BestMatch(ms, others, order, flip, best) ==
    IF order = <<>> THEN best
    ELSE LET Kept(s) == IF ScoreGt(s, best[2]) THEN <<Head(order), s>> ELSE best
         IN BestMatch(ms, others, Tail(order), flip,
               Kept(_model_rename_score(
                      IF flip THEN others[Head(order)] ELSE ms,
                      IF flip THEN ms ELSE others[Head(order)])))

\* pairs.sort(key=lambda t: (t[0].lower(), t[1].lower()))
PairLess(a, b) ==
    LET KeyLess(ka, kb) ==
            \/ StrLess(ka[1], kb[1])
            \/ ka[1] = kb[1] /\ StrLess(ka[2], kb[2])
    IN KeyLess(<<_lc(a[1]), _lc(a[2])>>, <<_lc(b[1]), _lc(b[2])>>)

RECURSIVE SortedPairs(_)
SortedPairs(S) ==
    IF S = {} THEN <<>>
    ELSE LET First(m) == <<m>> \o SortedPairs(S \ {m})
         IN First(CHOOSE x \in S : \A y \in S : x = y \/ PairLess(x, y))

\* _detect_model_renames(removed, added): removed_order and added_order are
\* the iteration orders of the two dicts (built from set differences)
_detect_model_renames(removed, added, removed_order, added_order) ==
    LET start == <<"", <<0, 1>>>>
        IsBack(back, x) == back[1] = x /\ ScoreAtLeastThreshold(back[2])
        Pairs(best_for_old, best_for_new) ==
            {<<o, best_for_old[o][1]>> : o \in
               {x \in DOMAIN removed :
                  /\ best_for_old[x][1] # ""
                  /\ ScoreAtLeastThreshold(best_for_old[x][2])
                  /\ IsBack(best_for_new[best_for_old[x][1]], x)}}
    IN SortedPairs(Pairs(
          [o \in DOMAIN removed |->
             BestMatch(removed[o], added, added_order, FALSE, start)],
          [n \in DOMAIN added |->
             BestMatch(added[n], removed, removed_order, TRUE, start)]))

\* a dependency map that forgets the foreign keys
FkDeps_None(model_states) == [n \in DOMAIN model_states |-> {}]

\* deps of _toposort_models_by_fk: model -> the models of the batch it references
FkDeps(model_states) ==
    LET TableOf(n) == _lc(model_states[n].db_table)
        Referenced(f) == _lc(f.options["related_table"])
        Deps(table_to_model) ==
            [n \in DOMAIN model_states |->
               {table_to_model[Referenced(fs)] :
                  fs \in {f \in Range(model_states[n].field_states) :
                            /\ f.field_type \in FK_TYPES
                            /\ Truthy(f.options["related_table"])
                            /\ Referenced(f) \in DOMAIN table_to_model}}]
        \* table_to_model (the db_table values of a batch are distinct)
        Mapped(tables) ==
            Deps([t \in tables |-> CHOOSE n \in DOMAIN model_states : TableOf(n) = t])
    IN Mapped({TableOf(n) : n \in DOMAIN model_states})

\* Kahn's algorithm; ready is kept sorted, so it is a set popped at its minimum
RECURSIVE Kahn(_, _, _)
Kahn(deps, ready, out) ==
    IF ready = {} THEN out
    ELSE LET n == CHOOSE x \in ready : \A y \in ready : Ord[x] <= Ord[y]
             out2 == Append(out, n)
             deps2 == [m \in DOMAIN deps |-> deps[m] \ {n}]
             freed == {m \in DOMAIN deps :
                         /\ n \in deps[m]
                         /\ deps2[m] = {}
                         /\ m \notin Range(out2)
                         /\ m \notin ready}
         IN Kahn(deps2, (ready \ {n}) \cup freed, out2)

\* a sort that returns what Kahn's algorithm reached without the length check
_toposort_models_by_fk_Unchecked(model_states) ==
    LET From(deps) ==
            [err |-> "",
             out |-> Kahn(deps, {n \in DOMAIN deps : deps[n] = {}}, <<>>)]
    IN From(FkDeps(model_states))

\* _toposort_models_by_fk: [err, out]; err is "cycle" when the sort raises
_toposort_models_by_fk(model_states) ==
    LET Checked(out) ==
            IF Len(out) # Cardinality(DOMAIN model_states)
            THEN [err |-> "cycle", out |-> <<>>]
            ELSE [err |-> "", out |-> out]
        From(deps) == Checked(Kahn(deps, {n \in DOMAIN deps : deps[n] = {}}, <<>>))
    IN From(FkDeps(model_states))

----------------------------------------------------------------------------
(* differ.py: diff_states *)

_resolved_db_column(fs) ==
    IF Truthy(fs.options["db_column"]) THEN fs.options["db_column"]
    ELSE IF fs.field_type \in FK_TYPES THEN fs.name \o "_id"
    ELSE None

_rename_or_alter_field_op(model_name, db_table, old_name, new_name, old_fs, new_fs) ==
    IF _same_except_name(old_fs, new_fs)
    THEN LET Explicit(col, name) == IF Truthy(col) /\ col # name THEN col ELSE None
         IN RenameField(model_name, db_table, old_name, new_name,
               Explicit(_resolved_db_column(old_fs), old_name),
               Explicit(_resolved_db_column(new_fs), new_name))
    ELSE AlterField(model_name, db_table, old_name,
                    _options_for_alter(old_fs), _options_for_alter(new_fs), new_name)

\* "for old_name, new_name in list(rename_map.items())" of _diff_model_fields:
\* pairs is the map in insertion order; the result carries the operations and
\* what is left of removed_names and added_names
RECURSIVE ConfirmedRenames(_, _, _, _, _, _)
ConfirmedRenames(pairs, old_model, new_model, model_name, removed_names, added_names) ==
    IF pairs = <<>>
    THEN [ops |-> <<>>, removed_names |-> removed_names, added_names |-> added_names]
    ELSE LET old_name == Head(pairs)[1]
             new_name == Head(pairs)[2]
         IN IF old_name \in removed_names /\ new_name \in added_names
            THEN LET rest == ConfirmedRenames(Tail(pairs), old_model, new_model,
                                model_name, removed_names \ {old_name},
                                added_names \ {new_name})
                 IN [rest EXCEPT !.ops =
                       <<_rename_or_alter_field_op(model_name, new_model.db_table,
                            old_name, new_name, old_model.field_states[old_name],
                            new_model.field_states[new_name])>> \o @]
            ELSE ConfirmedRenames(Tail(pairs), old_model, new_model, model_name,
                                  removed_names, added_names)

_diff_model_fields(old_model, new_model, model_name, renames) ==
    LET Explicit(col, name) == IF Truthy(col) /\ col # name THEN col ELSE None
        Removal(name, fs) ==
            RemoveField(model_name, new_model.db_table, name,
                        Explicit(_resolved_db_column(fs), fs.name))
        Addition(fs) ==
            AddField(model_name, new_model.db_table, fs.name, fs.field_type,
                     fs.options)
        Alteration(name, old_opts, new_opts) ==
            IF old_opts # new_opts
            THEN <<AlterField(model_name, new_model.db_table, name, old_opts,
                              new_opts, None)>>
            ELSE <<>>
        Removals(removed) ==
            [i \in DOMAIN removed |->
               Removal(removed[i], old_model.field_states[removed[i]])]
        Additions(added) ==
            [i \in DOMAIN added |-> Addition(new_model.field_states[added[i]])]
        Alterations(common) ==
            Concat([i \in DOMAIN common |->
                      Alteration(common[i],
                         _options_for_alter(old_model.field_states[common[i]]),
                         _options_for_alter(new_model.field_states[common[i]]))])
        Emitted(confirmed) ==
            confirmed.ops
            \o Removals(Sorted(confirmed.removed_names))
            \o Additions(Sorted(confirmed.added_names))
        Compared(old_fields, new_fields) ==
            Emitted(ConfirmedRenames(renames, old_model, new_model, model_name,
                       old_fields \ new_fields, new_fields \ old_fields))
            \o Alterations(Sorted(old_fields \cap new_fields))
    IN Compared(_schema_fields(old_model), _schema_fields(new_model))

\* an index diff that creates every index of the new model again
_diff_model_indexes_Recreate(old_model, new_model) ==
    LET Creations(added) ==
            [i \in DOMAIN added |->
               CreateIndex(new_model.name, new_model.db_table, added[i][1],
                           added[i][2])]
    IN Creations(SortedIndexes(_model_indexes(new_model)))

_diff_model_indexes(old_model, new_model) ==
    LET Creations(added) ==
            [i \in DOMAIN added |->
               CreateIndex(new_model.name, new_model.db_table, added[i][1],
                           added[i][2])]
        Removals(removed) ==
            [i \in DOMAIN removed |->
               RemoveIndex(old_model.name, old_model.db_table,
                  default_index_name(old_model.db_table, removed[i][1],
                                     removed[i][2]),
                  removed[i][1], removed[i][2])]
        Compared(old_indexes, new_indexes) ==
            Creations(SortedIndexes(new_indexes \ old_indexes))
            \o Removals(SortedIndexes(old_indexes \ new_indexes))
    IN Compared(_model_indexes(old_model), _model_indexes(new_model))

Restrict(f, S) == [x \in S |-> f[x]]

\* removed models from which the renamed ones are not popped
RemovedModels_Unpopped(from_models, to_models, model_renames) ==
    Restrict(from_models, (DOMAIN from_models) \ (DOMAIN to_models))

\* the models left in removed / added once the rename pairs are popped
RemovedModels(from_models, to_models, model_renames) ==
    Restrict(from_models, ((DOMAIN from_models) \ (DOMAIN to_models))
                            \ {model_renames[i][1] : i \in DOMAIN model_renames})

AddedModels(from_models, to_models, model_renames) ==
    Restrict(to_models, ((DOMAIN to_models) \ (DOMAIN from_models))
                          \ {model_renames[i][2] : i \in DOMAIN model_renames})

\* "for name in ordered_added_names": CreateModel, then its table-level indexes
CreateOps(new_model) ==
    LET Creations(ixs) ==
            [i \in DOMAIN ixs |->
               CreateIndex(new_model.name, new_model.db_table, ixs[i][1], ixs[i][2])]
    IN <<from_model_state(new_model)>>
       \o Creations(SortedIndexes(_model_indexes(new_model)))

\* rename_map.get(new_name) or rename_map.get(old_name) or {}
ConfirmedFor(renames, new_name, old_name) ==
    IF new_name \in DOMAIN renames /\ renames[new_name] # <<>>
    THEN renames[new_name]
    ELSE IF old_name \in DOMAIN renames THEN renames[old_name] ELSE <<>>

\* diff_states(from_state, to_state, rename_map=renames): [err, ops].
\* order.removed and order.added are the iteration orders of the dicts built
\* from "from_models.keys() - to_models.keys()" and its converse
diff_states(from_models, to_models, renames, order) ==
    LET RenameOps(model_renames) ==
            [i \in DOMAIN model_renames |->
               RenameModel(model_renames[i][1], model_renames[i][2],
                           from_models[model_renames[i][1]].db_table,
                           to_models[model_renames[i][2]].db_table)]
        RemoveOps(removed, r) ==
            [i \in DOMAIN r |-> RemoveModel(r[i], removed[r[i]].db_table)]
        CreateAll(added, ordered_added_names) ==
            Concat([i \in DOMAIN ordered_added_names |->
                      CreateOps(added[ordered_added_names[i]])])
        \* the fields, then the indexes, of one model kept or renamed
        ModelOps(old_model, new_model, model_name, confirmed) ==
            _diff_model_fields(old_model, new_model, model_name, confirmed)
            \o _diff_model_indexes(old_model, new_model)
        CommonOps(common) ==
            Concat([i \in DOMAIN common |->
                      ModelOps(from_models[common[i]], to_models[common[i]],
                         common[i],
                         IF common[i] \in DOMAIN renames
                         THEN renames[common[i]] ELSE <<>>)])
        RenamedOps(model_renames) ==
            Concat([i \in DOMAIN model_renames |->
                      ModelOps(from_models[model_renames[i][1]],
                         to_models[model_renames[i][2]], model_renames[i][2],
                         ConfirmedFor(renames, model_renames[i][2],
                                      model_renames[i][1]))])
        Ordered(model_renames, removed, added, ordered_removed, ordered_added) ==
            IF ordered_removed.err # ""
            THEN [err |-> ordered_removed.err, ops |-> <<>>]
            ELSE IF ordered_added.err # ""
            THEN [err |-> ordered_added.err, ops |-> <<>>]
            ELSE [err |-> "",
                  ops |-> RenameOps(model_renames)
                            \o RemoveOps(removed, Reversed(ordered_removed.out))
                            \o CreateAll(added, ordered_added.out)
                            \o CommonOps(Sorted((DOMAIN from_models)
                                                  \cap (DOMAIN to_models)))
                            \o RenamedOps(model_renames)]
        Sides(model_renames, removed, added) ==
            Ordered(model_renames, removed, added,
                    _toposort_models_by_fk(removed), _toposort_models_by_fk(added))
        Renamed(model_renames) ==
            Sides(model_renames,
                  RemovedModels(from_models, to_models, model_renames),
                  AddedModels(from_models, to_models, model_renames))
    IN Renamed(_detect_model_renames(
          Restrict(from_models, (DOMAIN from_models) \ (DOMAIN to_models)),
          Restrict(to_models, (DOMAIN to_models) \ (DOMAIN from_models)),
          order.removed, order.added))

----------------------------------------------------------------------------
(* operations.py: mutate_state.  Each returns [err, models]: err is "" or   *)
(* the exception the method raised, models the mutated model_states.        *)

Ok(models) == [err |-> "", models |-> models]
Raised(err, models) == [err |-> err, models |-> models]

\* "for fname, ftype, opts in self.fields: field_states[_lc(fname)] = ..."
RECURSIVE FieldStatesOf(_)
FieldStatesOf(fields) ==
    IF fields = <<>> THEN EmptyDict
    ELSE LET Set(field_states, last) ==
                 Put(field_states, _lc(last[1]),
                     FieldState(last[1], last[2], last[3]))
         IN Set(FieldStatesOf(SubSeq(fields, 1, Len(fields) - 1)),
                fields[Len(fields)])

CreateModel_mutate_state(op, models) ==
    Ok(Put(models, op.name,
           ModelState(op.name,
                      IF Truthy(op.db_table) THEN op.db_table ELSE _lc(op.name),
                      FieldStatesOf(op.fields), <<>>)))

\* the rewrite of the FK labels of one field
RelabelField(op, fs) ==
    LET Table(o) == IF o["related_table"] = op.old_db_table
                    THEN Put(o, "related_table", op.new_db_table) ELSE o
        Model(o) == IF o["related_model"] = op.old_name
                    THEN Put(o, "related_model", op.new_name) ELSE o
    IN [fs EXCEPT !.options = Model(Table(@))]

RenameModelMoved(op, ms) ==
    ModelState(op.new_name, op.new_db_table, ms.field_states, <<>>)

RenameModel_mutate_state(op, models) ==
    IF op.old_name \notin DOMAIN models THEN Raised("KeyError", models)
    ELSE LET Relabelled(moved) ==
                 Ok([n \in DOMAIN moved |->
                       [moved[n] EXCEPT !.field_states =
                          [k \in DOMAIN @ |-> RelabelField(op, @[k])]]])
         IN Relabelled(Put(Pop(models, {op.old_name}), op.new_name,
                           RenameModelMoved(op, models[op.old_name])))

RemoveModel_mutate_state(op, models) == Ok(Pop(models, {op.name}))

AddField_mutate_state(op, models) ==
    IF op.model_name \notin DOMAIN models THEN Raised("KeyError", models)
    ELSE Ok([models EXCEPT ![op.model_name].field_states =
               Put(@, _lc(op.field_name),
                   FieldState(op.field_name, op.field_type, op.options))])

RemoveField_mutate_state(op, models) ==
    IF op.model_name \notin DOMAIN models THEN Raised("KeyError", models)
    ELSE Ok([models EXCEPT ![op.model_name].field_states =
               Pop(@, {_lc(op.field_name)})])

\* an AlterField that replaces the options by new_options
AlterMerged_Replaced(base_opts, new_options) == Pop(new_options, {"type"})

\* the merge of AlterField.mutate_state: the previous options overlaid with
\* the keys of new_options other than "type"
AlterMerged(base_opts, new_options) ==
    Pop(new_options, {"type"}) @@ base_opts

AlterField_mutate_state(op, models) ==
    IF op.model_name \notin DOMAIN models THEN Raised("KeyError", models)
    ELSE LET Altered(field_states, src_key, dst_name) ==
                 LET has_prev == src_key \in DOMAIN field_states
                     new_type ==
                         IF Truthy(Get(op.new_options, "type"))
                         THEN op.new_options["type"]
                         ELSE IF has_prev THEN field_states[src_key].field_type
                         ELSE IF Truthy(Get(op.old_options, "type"))
                         THEN op.old_options["type"]
                         ELSE "TextField"
                     base_opts == IF has_prev THEN field_states[src_key].options
                                  ELSE Pop(op.old_options, {"type"})
                     dropped == IF Truthy(op.new_name) /\ has_prev
                                THEN Pop(field_states, {src_key}) ELSE field_states
                 IN Put(dropped, _lc(dst_name),
                        FieldState(dst_name, new_type,
                                   AlterMerged(base_opts, op.new_options)))
         IN Ok([models EXCEPT ![op.model_name].field_states =
                  Altered(@, _lc(op.field_name),
                          IF Truthy(op.new_name) THEN op.new_name
                          ELSE op.field_name)])

RenameField_mutate_state(op, models) ==
    IF op.model_name \notin DOMAIN models THEN Raised("KeyError", models)
    ELSE LET Moved(field_states, old_key, fs) ==
                 Put(Pop(field_states, {old_key}), _lc(op.new_name),
                     FieldState(op.new_name, fs.field_type, fs.options))
             Renamed(field_states, old_key) ==
                 IF old_key \notin DOMAIN field_states
                 THEN Raised("KeyError", models)
                 ELSE Ok([models EXCEPT ![op.model_name].field_states =
                            Moved(field_states, old_key, field_states[old_key])])
         IN Renamed(models[op.model_name].field_states, _lc(op.old_name))

CreateIndex_mutate_state(op, models) ==
    IF op.model_name \notin DOMAIN models THEN Raised("KeyError", models)
    ELSE LET Listed(indexes, key) ==
                 IF key \in Range(indexes) THEN indexes ELSE Append(indexes, key)
         IN Ok([models EXCEPT ![op.model_name].meta.indexes =
                  Listed(@, <<op.columns, op.unique>>)])

RemoveIndex_mutate_state(op, models) ==
    IF op.model_name \notin DOMAIN models THEN Raised("KeyError", models)
    ELSE Ok([models EXCEPT ![op.model_name].meta.indexes =
               SelectSeq(@, LAMBDA ix : ~(ix[1] = op.columns /\ ix[2] = op.unique))])

\* Operation.mutate_state, by the class of the operation
mutate_state(op, models) ==
    CASE op.kind = "CreateModel" -> CreateModel_mutate_state(op, models)
      [] op.kind = "RenameModel" -> RenameModel_mutate_state(op, models)
      [] op.kind = "RemoveModel" -> RemoveModel_mutate_state(op, models)
      [] op.kind = "AddField"    -> AddField_mutate_state(op, models)
      [] op.kind = "RemoveField" -> RemoveField_mutate_state(op, models)
      [] op.kind = "AlterField"  -> AlterField_mutate_state(op, models)
      [] op.kind = "RenameField" -> RenameField_mutate_state(op, models)
      [] op.kind = "CreateIndex" -> CreateIndex_mutate_state(op, models)
      [] op.kind = "RemoveIndex" -> RemoveIndex_mutate_state(op, models)
      [] OTHER                   -> Ok(models)

\* BaseMigration.mutate_state: the operations in order, stopping at a raise
RECURSIVE Migration_mutate_state(_, _)
Migration_mutate_state(operations, models) ==
    IF operations = <<>> THEN Ok(models)
    ELSE LET Then(r) == IF r.err # "" THEN r
                        ELSE Migration_mutate_state(Tail(operations), r.models)
         IN Then(mutate_state(Head(operations), models))

----------------------------------------------------------------------------
(* operations.py: to_code.  A migration file holds the rendered operations *)
(* and importing it evaluates them: each to_code below is the operation    *)
(* that the rendered expression constructs.                                *)

\* the keys on which old and new differ, with their values on each side
_changed_only(old, new) ==
    LET On(keys) == [old |-> [k \in keys |-> Get(old, k)],
                     new |-> [k \in keys |-> Get(new, k)]]
    IN On({k \in (DOMAIN old) \cup (DOMAIN new) : Get(old, k) # Get(new, k)})

_sanitize_options_for_code(opts) ==
    [k \in DOMAIN opts |-> _value_for_migration_code(opts[k])]

\* _compact of AlterField.to_code: None values go, but for "type" (and
\* "max_length" of a CharField)
_compact(d) ==
    LET keep == IF Get(d, "type") = "CharField"
                THEN {"type", "max_length"} ELSE {"type"}
    IN [k \in {x \in DOMAIN d : d[x] # None \/ x \in keep} |-> d[k]]

CreateModel_to_code(op) ==
    CreateModel(op.name, op.db_table,
        [i \in DOMAIN op.fields |->
           <<op.fields[i][1], op.fields[i][2],
             compact_opts_for_code(op.fields[i][3])>>])

AddField_to_code(op) ==
    AddField(op.model_name, op.db_table, op.field_name, op.field_type,
             compact_opts_for_code(op.options))

AlterField_to_code(op) ==
    LET Typed(diff, old_opts, new_opts) ==
            AlterField(op.model_name, op.db_table, op.field_name,
                       _compact(Put(diff.old, "type", old_opts["type"])),
                       _compact(Put(diff.new, "type", new_opts["type"])),
                       IF Truthy(op.new_name) THEN op.new_name ELSE None)
        Rendered(old_opts, new_opts) ==
            Typed(_changed_only(old_opts, new_opts), old_opts, new_opts)
    IN Rendered(_sanitize_options_for_code(op.old_options),
                _sanitize_options_for_code(op.new_options))

\* Operation.to_code, by the class of the operation.  RenameModel,
\* RemoveModel, RemoveField, RenameField, CreateIndex and RemoveIndex render
\* every attribute that is not its constructor's default
to_code(op) ==
    CASE op.kind = "CreateModel" -> CreateModel_to_code(op)
      [] op.kind = "AddField"    -> AddField_to_code(op)
      [] op.kind = "AlterField"  -> AlterField_to_code(op)
      [] OTHER                   -> op

----------------------------------------------------------------------------
(* writer.py and loader.py: the migration directory.  A file is its number *)
(* and the operations its Migration class lists.                           *)

\* the decimal digits
Digit(d) == <<"0", "1", "2", "3", "4", "5", "6", "7", "8", "9">>[d + 1]

\* the largest number that "{number:04d}" writes with four digits
MaxFourDigits == 9999

\* the digits of f"{number:04d}", for a number of at most five digits
NumberText(number) ==
    LET digits == <<Digit((number \div 10000) % 10), Digit((number \div 1000) % 10),
                    Digit((number \div 100) % 10), Digit((number \div 10) % 10),
                    Digit(number % 10)>>
    IN IF number > MaxFourDigits THEN digits ELSE Tail(digits)

\* re.match(r"^(\d{4})_.*\.py$", name) on the name "<NumberText>_<slug>.py"
MatchesMigrationName(file) == Len(NumberText(file.number)) = 4

\* the error of _parse_number and of iter_migration_files on another name
NonConforming == "InvalidMigrationError: non-conforming migration filename"

\* _next_number: max + 1, or 1 in an empty directory; every name has matched
_next_number(migration_files) ==
    IF migration_files = <<>> THEN 1
    ELSE 1 + CHOOSE n \in {migration_files[i].number : i \in DOMAIN migration_files} :
                 \A i \in DOMAIN migration_files : migration_files[i].number <= n

\* write_migration(operations, migrations_dir): the next number, the
\* operations rendered by to_code.  With empty=True the list is empty and
\* the RunPython stub is a comment
write_migration(operations, migration_files) ==
    Append(migration_files,
           [number |-> _next_number(migration_files),
            operations |-> [i \in DOMAIN operations |-> to_code(operations[i])]])

\* loader.load_migration_state: every file in numeric order on an empty
\* ProjectState; [err, models]
RECURSIVE load_migration_state(_)
load_migration_state(migration_files) ==
    IF \E i \in DOMAIN migration_files : ~MatchesMigrationName(migration_files[i])
    THEN Raised(NonConforming, EmptyProjectState)
    ELSE IF migration_files = <<>> THEN Ok(EmptyProjectState)
    ELSE LET Then(before) ==
                 IF before.err # "" THEN before
                 ELSE Migration_mutate_state(
                          migration_files[Len(migration_files)].operations,
                          before.models)
         IN Then(load_migration_state(
                    SubSeq(migration_files, 1, Len(migration_files) - 1)))

----------------------------------------------------------------------------
(* makemigrations.py: the validation of the new state and of the           *)
(* operations, and the interactive choice of field renames                 *)

\* the sentinels schema_editor.PY_CALLABLE_SENTINELS takes for a Python
\* callable default; the extractor's _safe_default stores "callable"
PY_CALLABLE_SENTINELS == {"callable", "python_callable", "callable_handled_by_python"}

\* a function object given to a field as default=
SomeCallable == "<function>"

\* extractor._safe_default: what the field state holds for a default
_safe_default(value) == IF value = SomeCallable THEN "callable" ELSE value

_has_db_initialisable_default(opts) ==
    IF "db_default" \in DOMAIN opts /\ opts["db_default"] # None THEN TRUE
    ELSE IF "default" \notin DOMAIN opts THEN FALSE
    ELSE opts["default"] \notin {None, "python_callable"}

\* the AddField operations the guard lists in problems_add
problems_add(operations) ==
    LET NotIn(created_models) ==
            {i \in DOMAIN operations :
               /\ operations[i].kind = "AddField"
               /\ operations[i].model_name \notin created_models
               /\ Get(operations[i].options, "null") # PyTrue
               /\ ~_has_db_initialisable_default(operations[i].options)}
    IN NotIn({operations[i].name :
                i \in {j \in DOMAIN operations :
                         operations[j].kind = "CreateModel"}})

\* the AlterField operations the guard lists in risky_alters
risky_alters(operations) ==
    {i \in DOMAIN operations :
       /\ operations[i].kind = "AlterField"
       /\ Get(operations[i].old_options, "null") = PyTrue
       /\ Get(operations[i].new_options, "null") = PyFalse
       /\ ~_has_db_initialisable_default(operations[i].new_options)}

\* the exception raised, "" when none; proceed is the answer to
\* "Proceed anyway? [y/N]"
_validate_non_nullable_adds_and_warn_alters(operations, proceed) ==
    IF problems_add(operations) # {}
    THEN "InvalidMigrationError: non-nullable field without a default"
    ELSE IF risky_alters(operations) # {} /\ ~proceed
    THEN "InvalidMigrationError: Migration cancelled"
    ELSE ""

_normalize_alter_options(opts) ==
    Pop(IF "type" \notin DOMAIN opts /\ "field_type" \in DOMAIN opts
        THEN Put(opts, "type", opts["field_type"]) ELSE opts,
        {"field_type"})

int_rank == ("SmallIntField" :> 0) @@ ("IntField" :> 1) @@ ("BigIntField" :> 2)

\* a check that takes any change among the integer types
_is_supported_type_change_AnyInt(old_type, new_type) ==
    IF ~Truthy(old_type) \/ ~Truthy(new_type) THEN FALSE
    ELSE IF old_type = new_type THEN TRUE
    ELSE IF old_type \in DOMAIN int_rank /\ new_type \in DOMAIN int_rank
    THEN TRUE
    ELSE old_type = "CharField" /\ new_type = "CharField"

_is_supported_type_change(old_type, new_type) ==
    IF ~Truthy(old_type) \/ ~Truthy(new_type) THEN FALSE
    ELSE IF old_type = new_type THEN TRUE
    ELSE IF old_type \in DOMAIN int_rank /\ new_type \in DOMAIN int_rank
    THEN int_rank[new_type] > int_rank[old_type]
    ELSE old_type = "CharField" /\ new_type = "CharField"

\* what is left in diffs for one AlterField
UnsupportedChanges(op, related_table_renames) ==
    LET \* diffs.pop(k) when k is in diffs and the change of k is allowed
        Allow(diffs, k, allowed) == IF k \in diffs /\ allowed THEN diffs \ {k} ELSE diffs
        Left(old_opts, new_opts, old_type, new_type) ==
            Allow(
              Allow(
                Allow(
                  Allow({k \in (DOMAIN old_opts) \cup (DOMAIN new_opts) :
                           Get(old_opts, k) # Get(new_opts, k)}
                          \ {"auto_now", "auto_now_add", "related_model"},
                        "type", _is_supported_type_change(old_type, new_type)),
                  "max_length", old_type = new_type /\ new_type = "CharField"),
                "related_table",
                <<Get(old_opts, "related_table"), Get(new_opts, "related_table")>>
                  \in related_table_renames),
              "db_column", Truthy(op.new_name))
            \ {"null", "default", "index"}
        Typed(old_opts, new_opts) ==
            Left(old_opts, new_opts, Get(old_opts, "type"), Get(new_opts, "type"))
    IN Typed(_normalize_alter_options(op.old_options),
             _normalize_alter_options(op.new_options))

\* a check that lets a retarget pass as soon as the batch renames a model
_validate_safe_alters_AnyRename(operations) ==
    LET Given(related_table_renames) ==
            IF \E i \in DOMAIN operations :
                 /\ operations[i].kind = "AlterField"
                 /\ UnsupportedChanges(operations[i], related_table_renames)
                      \ (IF related_table_renames = {} THEN {}
                         ELSE {"related_table"}) # {}
            THEN "InvalidMigrationError: unsupported AlterField changes"
            ELSE ""
    IN Given({<<operations[i].old_db_table, operations[i].new_db_table>> :
                i \in {j \in DOMAIN operations :
                         operations[j].kind = "RenameModel"}})

_validate_safe_alters(operations) ==
    LET Given(related_table_renames) ==
            IF \E i \in DOMAIN operations :
                 /\ operations[i].kind = "AlterField"
                 /\ UnsupportedChanges(operations[i], related_table_renames) # {}
            THEN "InvalidMigrationError: unsupported AlterField changes"
            ELSE ""
    IN Given({<<operations[i].old_db_table, operations[i].new_db_table>> :
                i \in {j \in DOMAIN operations :
                         operations[j].kind = "RenameModel"}})

\* the raise of _validate_related_models follows a "continue" of the same
\* block: no statement of the loop body after the test is ever run
_validate_related_models(model_states) == ""

\* a validation that knows the field names only
_validate_index_columns_LogicalOnly(model_states) ==
    IF \E m \in DOMAIN model_states :
         \E ix \in Range(model_states[m].meta.indexes) : \E col \in Range(ix[1]) :
            _lc(col) \notin {_lc(model_states[m].field_states[k].name) :
                               k \in DOMAIN model_states[m].field_states}
    THEN "InvalidMigrationError: invalid index definitions"
    ELSE ""

_validate_index_columns(model_states) ==
    IF \E m \in DOMAIN model_states :
         LET ms == model_states[m]
             logical_names == {_lc(ms.field_states[k].name) : k \in DOMAIN ms.field_states}
             physical_names ==
                 {IF Truthy(ms.field_states[k].options["db_column"])
                  THEN _lc(ms.field_states[k].options["db_column"])
                  ELSE _lc(ms.field_states[k].name) : k \in DOMAIN ms.field_states}
                 \cup {_lc(ms.field_states[k].name) \o "_id" :
                         k \in {x \in DOMAIN ms.field_states :
                                  ms.field_states[x].field_type \in FK_TYPES}}
         IN \E ix \in Range(ms.meta.indexes) : \E col \in Range(ix[1]) :
              _lc(col) \notin logical_names \cup physical_names
    THEN "InvalidMigrationError: invalid index definitions"
    ELSE ""

\* the numbers that more than one file carries; a name that does not match
\* is skipped
_detect_conflicts(migration_files) ==
    LET matching == SelectSeq(migration_files, MatchesMigrationName)
    IN {n \in {matching[i].number : i \in DOMAIN matching} :
          Cardinality({i \in DOMAIN matching : matching[i].number = n}) > 1}

\* differ.score_candidate as an exact fraction; -1.0 is <<-1, 1>>
score_candidate(old_name, old_fs, new_name, new_fs) ==
    LET Scored(old_opts, new_opts, sim) ==
      LET
        fk == IF /\ old_fs.field_type \in FK_TYPES
                 /\ new_fs.field_type \in FK_TYPES
                 /\ Get(old_opts, "related_table") = Get(new_opts, "related_table")
              THEN 20 ELSE 0
        pk == IF Get(old_opts, "primary_key") = Get(new_opts, "primary_key")
              THEN 10 ELSE 0
        flags == 5 * Cardinality({k \in {"null", "unique", "index"} :
                                    Get(old_opts, k) = Get(new_opts, k)})
        size == IF old_fs.field_type = "CharField"
                THEN IF /\ Get(old_opts, "max_length") # None
                        /\ Get(new_opts, "max_length") # None
                        /\ Get(old_opts, "max_length") = Get(new_opts, "max_length")
                     THEN 10 ELSE 0
                ELSE IF /\ old_fs.field_type = "DecimalField"
                        /\ Get(old_opts, "max_digits") = Get(new_opts, "max_digits")
                        /\ Get(old_opts, "decimal_places")
                             = Get(new_opts, "decimal_places")
                     THEN 10 ELSE 0
        hints == (IF Get(old_opts, "db_column") = new_name THEN 4 ELSE 0)
                   + (IF Get(new_opts, "db_column") = old_name THEN 4 ELSE 0)
      IN IF new_fs.field_type # old_fs.field_type THEN <<-1, 1>>
         ELSE IF /\ Truthy(Get(old_opts, "db_column"))
                 /\ old_opts["db_column"] = Get(new_opts, "db_column")
         THEN <<100, 1>>
         ELSE <<50 * sim[1] + (fk + pk + flags + size + hints) * sim[2], sim[2]>>
    IN Scored(_options_with_type(old_fs), _options_with_type(new_fs),
              _name_similarity(old_name, new_name))

\* the default of the min_score argument of _choose_renames_interactive
min_score == 40

\* pairs.sort(key=lambda t: t[1], reverse=True) on <<name, score>> pairs:
\* descending, equal scores keep their order
RECURSIVE SortedByScore(_)
SortedByScore(pairs) ==
    IF pairs = <<>> THEN <<>>
    ELSE LET At(rest, last, k) ==
                 SubSeq(rest, 1, k) \o <<last>> \o SubSeq(rest, k + 1, Len(rest))
             Inserted(rest, last) ==
                 At(rest, last,
                    Cardinality({i \in DOMAIN rest : ~ScoreGt(last[2], rest[i][2])}))
         IN Inserted(SortedByScore(SubSeq(pairs, 1, Len(pairs) - 1)),
                     pairs[Len(pairs)])

\* the scored candidates of one removed field, best first
Candidates(old_name, old_fields, new_fields, added) ==
    LET scored == [i \in DOMAIN added |->
                     <<added[i], score_candidate(old_name, old_fields[old_name],
                                                 added[i], new_fields[added[i]])>>]
    IN SortedByScore(SelectSeq(scored, LAMBDA c : c[2][1] >= min_score * c[2][2]))

\* what input() gives at a prompt: the line typed, or one of two exceptions
EOFError == "EOFError"
KeyboardInterrupt == "KeyboardInterrupt"

\* raw.strip().lower() on the lines of the model
strip_lower(raw) ==
    CASE raw = "Y" -> "y"
      [] raw = " " -> ""
      [] OTHER -> raw

\* _safe_input(prompt, default=default) when input() gives raw
_safe_input(raw, default) ==
    IF raw \in {EOFError, KeyboardInterrupt} THEN default
    ELSE IF strip_lower(raw) = "" THEN default
    ELSE IF strip_lower(raw) \in {"y", "yes", "1", "true", "t"} THEN TRUE
    ELSE IF strip_lower(raw) \in {"n", "no", "0", "false", "f"} THEN FALSE
    ELSE default

\* _input_int(prompt, default=default, max_value=max_value) when input()
\* gives raw; int(raw, 10) raises ValueError on a line that is no number
_input_int(raw, default, max_value) ==
    IF raw \in {EOFError, KeyboardInterrupt} THEN default
    ELSE IF strip_lower(raw) = "" THEN default
    ELSE IF \A d \in 0 .. 9 : Digit(d) # raw THEN default
    ELSE LET val == CHOOSE d \in 0 .. 9 : Digit(d) = raw
         IN IF val < 0 \/ val > max_value THEN default ELSE val

\* a loop that offers every candidate, taken already or not
RECURSIVE AskRenames_Reusing(_, _, _, _, _, _)
AskRenames_Reusing(model_key, order, candidates, used_new, answers, chosen) ==
    IF order = <<>> THEN chosen
    ELSE LET old_name == Head(order)
             Picked(options, typed, choice) ==
                 IF options = <<>> THEN None
                 ELSE IF _safe_input(typed.accept, TRUE) THEN options[1][1]
                 ELSE IF choice # 0 THEN options[choice][1]
                 ELSE None
             Typed(options, typed) ==
                 Picked(options, typed, _input_int(typed.choice, 0, Len(options)))
             Next_(pick) ==
                 IF pick = None
                 THEN AskRenames_Reusing(model_key, Tail(order), candidates,
                                         used_new, answers, chosen)
                 ELSE AskRenames_Reusing(model_key, Tail(order), candidates,
                                         used_new \cup {pick}, answers,
                                         Append(chosen, <<old_name, pick>>))
         IN Next_(Typed(candidates[old_name], answers[<<model_key, old_name>>]))

\* "for old_name in order": answers[old_name] is what is typed at the prompts
\* for old_name, "Accept this rename? [Y/n]" and "Enter number"; the result is
\* the model's rename dict as its <<old, new>> pairs in insertion order
RECURSIVE AskRenames(_, _, _, _, _, _)
AskRenames(model_key, order, candidates, used_new, answers, chosen) ==
    IF order = <<>> THEN chosen
    ELSE LET old_name == Head(order)
             Picked(options, typed, choice) ==
                 IF options = <<>> THEN None
                 ELSE IF _safe_input(typed.accept, TRUE) THEN options[1][1]
                 ELSE IF choice # 0 THEN options[choice][1]
                 ELSE None
             Typed(options, typed) ==
                 Picked(options, typed, _input_int(typed.choice, 0, Len(options)))
             Next_(pick) ==
                 IF pick = None
                 THEN AskRenames(model_key, Tail(order), candidates, used_new,
                                 answers, chosen)
                 ELSE AskRenames(model_key, Tail(order), candidates,
                                 used_new \cup {pick}, answers,
                                 Append(chosen, <<old_name, pick>>))
         IN Next_(Typed(SelectSeq(candidates[old_name],
                                  LAMBDA c : c[1] \notin used_new),
                        answers[<<model_key, old_name>>]))

\* the body of "for model_key in ..." of _choose_renames_interactive;
\* field_order lists the field keys in the iteration order of the dicts
RenamesOfModel(model_key, old_fields, new_fields, answers, field_order) ==
    LET Firsts(pairs) == [i \in DOMAIN pairs |-> pairs[i][1]]
        \* order.sort(key=lambda n: candidates[n][0][1], reverse=True)
        ByBest(asked, candidates) ==
            Firsts(SortedByScore([i \in DOMAIN asked |->
                                    <<asked[i], candidates[asked[i]][1][2]>>]))
        Asked(removed, candidates) ==
            AskRenames(model_key,
                       ByBest(SelectSeq(removed, LAMBDA n : candidates[n] # <<>>),
                              candidates),
                       candidates, {}, answers, <<>>)
        Scored(removed, added) ==
            Asked(removed, [n \in Range(removed) |->
                              Candidates(n, old_fields, new_fields, added)])
    IN Scored(SelectSeq(field_order, LAMBDA n :
                 n \in DOMAIN old_fields /\ n \notin DOMAIN new_fields),
              SelectSeq(field_order, LAMBDA n :
                 n \in DOMAIN new_fields /\ n \notin DOMAIN old_fields))

\* _choose_renames_interactive(from_state, to_state): the rename map, with
\* the models for which a rename was chosen as its keys
_choose_renames_interactive(from_models, to_models, answers, field_order) ==
    LET NonEmpty(chosen) == [m \in {x \in DOMAIN chosen : chosen[x] # <<>>} |->
                               chosen[m]]
    IN NonEmpty([m \in (DOMAIN from_models) \cap (DOMAIN to_models) |->
                   RenamesOfModel(m, from_models[m].field_states,
                                  to_models[m].field_states, answers, field_order)])

----------------------------------------------------------------------------
(* migrate.py and recorder.py: the migration runner *)

\* the most migration files of the directory
MaxFiles == 3
\* the operations each migration holds
OpsPerMigration == 2
\* the most runs of migrate in one behaviour
MaxRuns == 2

\* the stems of the migration files, by number
Stems ==
    << "0001_initial", "0002_add_age", "0003_add_book", "0004_add_index",
       "0005_add_writer" >>

\* a second file with the number 2, as a merge of two branches leaves it
TwinStem == "0002_add_name"

\* a third file with the number 2, whose stem the two others extend
ShortStem == "0002_add"

\* the number a stem starts with: int(m.group(1)) of _MIGRATION_RE
NumberOf(stem) ==
    IF stem \in {TwinStem, ShortStem} THEN 2
    ELSE CHOOSE i \in DOMAIN Stems : Stems[i] = stem

\* the migrations directory: the files numbered 1 to MaxFiles
MigrationDir == {Stems[i] : i \in 1 .. MaxFiles}

\* sorted(numbered, key=lambda t: t[0]) of iter_migration_files
RECURSIVE SortedByNumber(_)
SortedByNumber(S) ==
    IF S = {} THEN <<>>
    ELSE LET m == CHOOSE x \in S : \A y \in S : NumberOf(x) <= NumberOf(y)
         IN <<m>> \o SortedByNumber(S \ {m})

\* [f.stem for f in iter_migration_files(location)]
iter_migration_files(migration_dir) == SortedByNumber(migration_dir)

\* the same for any directory: Path.iterdir() lists the files in an order
\* the file system chooses and sorted() is stable, so files that share a
\* number come in either order
Listings(migration_dir) ==
    {s \in [1 .. Cardinality(migration_dir) -> migration_dir] :
        /\ \A i, j \in DOMAIN s : i # j => s[i] # s[j]
        /\ \A i, j \in DOMAIN s : i < j => NumberOf(s[i]) <= NumberOf(s[j])}

\* what a user passes as target, besides None and the stems themselves
TargetPrefixes == {"0001", "0002", "0003", "0004", "000", "0009"}

\* the characters of a stem or of a target; the part of a stem after its
\* number is one token, or two when a target of the model ends inside it
TargetChars(t) ==
    CASE t = "0001" -> <<"0", "0", "0", "1">>
      [] t = "0002" -> <<"0", "0", "0", "2">>
      [] t = "0003" -> <<"0", "0", "0", "3">>
      [] t = "0004" -> <<"0", "0", "0", "4">>
      [] t = "000"  -> <<"0", "0", "0">>
      [] t = "0009" -> <<"0", "0", "0", "9">>
      [] t = "0002_add" -> <<"0", "0", "0", "2", "_add">>
      [] t = "0002_add_age" -> <<"0", "0", "0", "2", "_add", "_age">>
      [] t = "0002_add_name" -> <<"0", "0", "0", "2", "_add", "_name">>
      [] OTHER      -> <<"0", "0", "0", Digit(NumberOf(t)), t>>

\* name.startswith(target)
StartsWith(name, target) ==
    LET n == TargetChars(name)
        t == TargetChars(target)
    IN Len(t) <= Len(n) /\ SubSeq(n, 1, Len(t)) = t

\* resolve_target_name: [err, name]
resolve_target_name(target, all_names) ==
    LET matches == SelectSeq(all_names, LAMBDA n : StartsWith(n, target))
    IN IF Len(matches) = 0
       THEN [err |-> "InvalidMigrationError: unknown", name |-> None]
       ELSE IF Len(matches) > 1
       THEN [err |-> "InvalidMigrationError: ambiguous", name |-> None]
       ELSE [err |-> "", name |-> matches[1]]

\* all_names[a:b] of Python, for 0 <= a
Slice(s, a, b) == SubSeq(s, a + 1, IF b > Len(s) THEN Len(s) ELSE b)

\* all_names.index(name), from 0
IndexOf(s, x) == (CHOOSE i \in DOMAIN s : s[i] = x) - 1

\* a route whose backward leg lists the migrations in ascending order
plan_route_Ascending(applied_set, all_names, target_name) ==
    IF target_name = None
    THEN [direction |-> "forward",
          names |-> SelectSeq(all_names, LAMBDA n : n \notin applied_set)]
    ELSE LET applied_order == SelectSeq(all_names, LAMBDA n : n \in applied_set)
             current_idx == Len(applied_order) - 1
             target_idx == IndexOf(all_names, target_name)
         IN IF target_idx = current_idx
            THEN [direction |-> "noop", names |-> <<>>]
            ELSE IF target_idx > current_idx
            THEN [direction |-> "forward",
                  names |-> Slice(all_names, current_idx + 1, target_idx + 1)]
            ELSE [direction |-> "backward",
                  names |-> Slice(all_names, target_idx + 1, current_idx + 1)]

plan_route(applied_set, all_names, target_name) ==
    IF target_name = None
    THEN [direction |-> "forward",
          names |-> SelectSeq(all_names, LAMBDA n : n \notin applied_set)]
    ELSE LET applied_order == SelectSeq(all_names, LAMBDA n : n \in applied_set)
             current_idx == Len(applied_order) - 1
             target_idx == IndexOf(all_names, target_name)
         IN IF target_idx = current_idx
            THEN [direction |-> "noop", names |-> <<>>]
            ELSE IF target_idx > current_idx
            THEN [direction |-> "forward",
                  names |-> Slice(all_names, current_idx + 1, target_idx + 1)]
            ELSE [direction |-> "backward",
                  names |-> Reversed(Slice(all_names, target_idx + 1,
                                           current_idx + 1))]

\* the effect of operation i of a migration on the schema
Statement(name, i) == <<name, i>>

\* the effects of all the operations of a migration
StatementsOf(name) == {Statement(name, i) : i \in 1 .. OpsPerMigration}

\* the operations that are a RunPython(forwards, reverse_func=backwards):
\* the second operation of the second migration, a backfill
RunPythonOps == {<<Stems[2], 2>>}

\* RunPython.apply and RunPython.unapply call the callable; no other
\* operation calls anything
Invocation(name, i, which) ==
    IF <<name, i>> \in RunPythonOps THEN <<<<name, which>>>> ELSE <<>>

\* Operation.to_sql: the statement of the operation, nothing for a RunPython
Operation_to_sql(name, i) ==
    IF <<name, i>> \in RunPythonOps THEN <<>> ELSE <<Statement(name, i)>>

\* BaseMigration.to_sql: the statements of the operations, in list order
Migration_to_sql(name) ==
    Concat([i \in 1 .. OpsPerMigration |-> Operation_to_sql(name, i)])

\* Migration.unapply(recorder, schema_editor) under sql=True: what the
\* recorder has received, the operations being undone in reverse order
Recorded(name) ==
    Reversed([i \in 1 .. OpsPerMigration |-> Statement(name, i)])

\* and the callables that call has invoked
ReverseCalls(name) ==
    Concat(Reversed([i \in 1 .. OpsPerMigration |->
                       Invocation(name, i, "reverse")]))

NoTx == [open |-> FALSE]

\* "async with conn._in_transaction()": the view the statements work on
Begin(schema, rows) == [open |-> TRUE, schema |-> schema, registry |-> rows]

\* a block left by an exception that keeps the statements already issued
Rollback_KeepsWork(committed, working) == working

\* leaving the block by an exception: ROLLBACK, the committed value stays
Rollback(committed, working) == committed

\* leaving the block normally: COMMIT, the working value is the committed one
Commit(committed, working) == working

\* a registry write that inserts no row
record_applied_Dropped(rows, name) == rows

\* record_applied: INSERT ... ON CONFLICT (name) DO NOTHING
record_applied(rows, name) == rows \cup {name}

\* unrecord_applied: DELETE ... WHERE name = $1
unrecord_applied(rows, name) == rows \ {name}

\* the variables of the runner while another part of the program is looked at
MigrateIdle ==
    /\ registry = {}
    /\ db_schema = {}
    /\ tx = NoTx
    /\ mpc = "idle"
    /\ margs = [sql |-> FALSE, fake |-> FALSE, target |-> None,
                location |-> MigrationDir]
    /\ applied = {}
    /\ direction = "noop"
    /\ names = <<>>
    /\ opi = 0
    /\ mlog = <<>>
    /\ sql_accum = <<>>
    /\ invoked = <<>>
    /\ merr = ""
    /\ runs = 0

DiffIdle ==
    /\ from_state = EmptyProjectState
    /\ to_state = EmptyProjectState
    /\ rename_map = EmptyDict
    /\ dpc = "idle"
    /\ ops = <<>>
    /\ derr = ""
    /\ cur = EmptyProjectState
    /\ pos = 0
    /\ ferr = ""

MakeIdle ==
    /\ files = <<>>
    /\ app_models = EmptyProjectState
    /\ edited = FALSE
    /\ kin = EmptyDict
    /\ kout = "none"
    /\ kops = <<>>
    /\ kerr = ""
    /\ kruns = 0
    /\ edits = 0

ValidateIdle ==
    /\ batch = <<>>
    /\ vpc = "idle"
    /\ verdict = ""
    /\ verdict_alter = ""

\* a fresh database: no migration recorded, nothing executed
UnapplyIdle ==
    /\ uops = <<>>
    /\ upos = 0
    /\ usql = <<>>
    /\ uerr = ""
    /\ upc = "idle"
    /\ umode = "unapply"
    /\ ucalls = <<>>

\* a database with no table and no index
EmptyDatabase == [tables |-> EmptyDict, indexes |-> EmptyDict]

NoRoute == [target |-> None, direction |-> "noop", names |-> <<>>]

RoundTripIdle ==
    /\ rfiles = EmptyDict
    /\ rdb = EmptyDatabase
    /\ rreg = {}
    /\ rpc = "idle"
    /\ rroute = NoRoute
    /\ rhist = <<>>

\* the sessions of the recorder: none has started
NoSessions == [s \in {} |-> None]

RecorderIdle ==
    /\ table_rows = <<>>
    /\ sessions = NoSessions

MigrateInit ==
    MigrateIdle /\ DiffIdle /\ MakeIdle /\ ValidateIdle /\ UnapplyIdle
    /\ RoundTripIdle
    /\ RecorderIdle

\* a database on which any subset of the migration files is recorded, with
\* the effects of exactly those migrations
MigrateAnyInit ==
    /\ registry \in SUBSET MigrationDir
    /\ db_schema = UNION {StatementsOf(n) : n \in registry}
    /\ tx = NoTx
    /\ mpc = "idle"
    /\ margs = [sql |-> FALSE, fake |-> FALSE, target |-> None,
                location |-> MigrationDir]
    /\ applied = {}
    /\ direction = "noop"
    /\ names = <<>>
    /\ opi = 0
    /\ mlog = <<>>
    /\ sql_accum = <<>>
    /\ invoked = <<>>
    /\ merr = ""
    /\ runs = 0
    /\ DiffIdle
    /\ MakeIdle
    /\ ValidateIdle
    /\ UnapplyIdle
    /\ RoundTripIdle
    /\ RecorderIdle

\* the run ends by an exception
Fail(err) ==
    /\ mpc' = "failed"
    /\ merr' = err

\* migrate(sql=, fake=, target=) up to the loop over the route: the option
\* check, list_applied, iter_migration_files, the target and plan_route
MigrateStart ==
    /\ mpc \in {"idle", "done", "failed"}
    /\ runs < MaxRuns
    /\ runs' = runs + 1
    /\ \E sql \in BOOLEAN, fake \in BOOLEAN,
          target \in {None} \cup TargetPrefixes \cup margs.location,
          all_names \in Listings(margs.location) :
         LET resolved == IF target # None
                         THEN resolve_target_name(target, all_names)
                         ELSE LET pending == SelectSeq(all_names,
                                                LAMBDA n : n \notin registry)
                              IN [err |-> "",
                                  name |-> IF pending # <<>>
                                           THEN pending[Len(pending)] ELSE None]
             route == IF resolved.err = "" /\ resolved.name # None
                      THEN plan_route(registry, all_names, resolved.name)
                      ELSE [direction |-> "noop", names |-> <<>>]
         IN /\ margs' = [sql |-> sql, fake |-> fake, target |-> target,
                         location |-> margs.location]
            /\ mlog' = <<>>
            /\ sql_accum' = <<>>
            /\ invoked' = <<>>
            /\ opi' = 0
            /\ IF sql /\ fake
               THEN /\ Fail("ConfigError")
                    /\ UNCHANGED <<applied, direction, names>>
               ELSE /\ applied' = registry
                    /\ direction' = route.direction
                    /\ names' = route.names
                    /\ IF resolved.err # "" THEN Fail(resolved.err)
                       ELSE /\ merr' = ""
                            /\ mpc' = IF route.direction = "noop"
                                      THEN "done" ELSE "route"
    /\ UNCHANGED <<registry, db_schema, tx>>
    /\ UNCHANGED <<diffVars, makeVars, valVars, unVars, rtVars, recVars>>

\* a fake step that runs the operations of the migration all the same
StepFake_Applies ==
    /\ mpc = "route" /\ names # <<>> /\ margs.fake
    /\ registry' = IF direction = "forward"
                   THEN record_applied(registry, Head(names))
                   ELSE unrecord_applied(registry, Head(names))
    /\ db_schema' = IF direction = "forward"
                    THEN db_schema \cup StatementsOf(Head(names))
                    ELSE db_schema \ StatementsOf(Head(names))
    /\ mlog' = Append(mlog, <<IF direction = "forward" THEN "fake applied"
                              ELSE "fake unapplied", Head(names)>>)
    /\ names' = Tail(names)
    /\ UNCHANGED <<tx, mpc, margs, applied, direction, opi,
                   sql_accum, invoked, merr, runs>>
    /\ UNCHANGED <<diffVars, makeVars, valVars, unVars, rtVars, recVars>>

\* fake=True: the registry row is written or deleted, nothing is run
StepFake ==
    /\ mpc = "route" /\ names # <<>> /\ margs.fake
    /\ registry' = IF direction = "forward"
                   THEN record_applied(registry, Head(names))
                   ELSE unrecord_applied(registry, Head(names))
    /\ mlog' = Append(mlog, <<IF direction = "forward" THEN "fake applied"
                              ELSE "fake unapplied", Head(names)>>)
    /\ names' = Tail(names)
    /\ UNCHANGED <<db_schema, tx, mpc, margs, applied, direction, opi,
                   sql_accum, invoked, merr, runs>>
    /\ UNCHANGED <<diffVars, makeVars, valVars, unVars, rtVars, recVars>>

\* sql=True: the statements of the migration are rendered, nothing is run
StepSql ==
    /\ mpc = "route" /\ names # <<>> /\ margs.sql
    /\ IF direction = "forward"
       THEN /\ sql_accum' = sql_accum \o Migration_to_sql(Head(names))
            /\ invoked' = invoked
       ELSE /\ sql_accum' = sql_accum \o Recorded(Head(names))
            /\ invoked' = invoked \o ReverseCalls(Head(names))
    /\ mlog' = Append(mlog, <<"sql displayed", Head(names)>>)
    /\ names' = Tail(names)
    /\ UNCHANGED <<registry, db_schema, tx, mpc, margs, applied, direction,
                   opi, merr, runs>>
    /\ UNCHANGED <<diffVars, makeVars, valVars, unVars, rtVars, recVars>>

\* "async with conn._in_transaction()" for the next migration of the route
BeginStep ==
    /\ mpc = "route" /\ names # <<>> /\ ~margs.fake /\ ~margs.sql
    /\ tx' = Begin(db_schema, registry)
    /\ opi' = 0
    /\ mpc' = "tx"
    /\ UNCHANGED <<registry, db_schema, margs, applied, direction, names,
                   mlog, sql_accum, invoked, merr, runs>>
    /\ UNCHANGED <<diffVars, makeVars, valVars, unVars, rtVars, recVars>>

\* Migration.apply: the next operation, in list order, succeeds
ApplyOp ==
    /\ mpc = "tx" /\ direction = "forward" /\ opi < OpsPerMigration
    /\ tx' = [tx EXCEPT !.schema = @ \cup {Statement(Head(names), opi + 1)}]
    /\ invoked' = invoked \o Invocation(Head(names), opi + 1, "forwards")
    /\ opi' = opi + 1
    /\ UNCHANGED <<registry, db_schema, mpc, margs, applied, direction, names,
                   mlog, sql_accum, merr, runs>>
    /\ UNCHANGED <<diffVars, makeVars, valVars, unVars, rtVars, recVars>>

\* Migration.unapply: the next operation, in reverse list order, is undone
UnapplyOp ==
    /\ mpc = "tx" /\ direction = "backward" /\ opi < OpsPerMigration
    /\ tx' = [tx EXCEPT !.schema =
                @ \ {Statement(Head(names), OpsPerMigration - opi)}]
    /\ invoked' = invoked \o Invocation(Head(names), OpsPerMigration - opi,
                                         "reverse")
    /\ opi' = opi + 1
    /\ UNCHANGED <<registry, db_schema, mpc, margs, applied, direction, names,
                   mlog, sql_accum, merr, runs>>
    /\ UNCHANGED <<diffVars, makeVars, valVars, unVars, rtVars, recVars>>

\* a statement of the migration, or the write to the registry that follows
\* them, raises: the block is left by the exception and the run ends
StatementFails ==
    /\ mpc = "tx"
    /\ db_schema' = Rollback(db_schema, tx.schema)
    /\ registry' = Rollback(registry, tx.registry)
    /\ tx' = NoTx
    /\ Fail("DatabaseError")
    /\ UNCHANGED <<margs, applied, direction, names, opi, mlog, sql_accum, invoked, runs>>
    /\ UNCHANGED <<diffVars, makeVars, valVars, unVars, rtVars, recVars>>

\* the registry is written inside the transaction and the block is left
RecordAndCommit ==
    /\ mpc = "tx" /\ opi = OpsPerMigration
    /\ LET rows == IF direction = "forward"
                   THEN record_applied(tx.registry, Head(names))
                   ELSE unrecord_applied(tx.registry, Head(names))
       IN /\ db_schema' = Commit(db_schema, tx.schema)
          /\ registry' = Commit(registry, rows)
    /\ tx' = NoTx
    /\ mlog' = Append(mlog, <<IF direction = "forward" THEN "applied"
                              ELSE "rolled back", Head(names)>>)
    /\ names' = Tail(names)
    /\ mpc' = "route"
    /\ UNCHANGED <<margs, applied, direction, opi, sql_accum, invoked, merr, runs>>
    /\ UNCHANGED <<diffVars, makeVars, valVars, unVars, rtVars, recVars>>

\* the loop over the route has ended
MigrateReturn ==
    /\ mpc = "route" /\ names = <<>>
    /\ mpc' = "done"
    /\ UNCHANGED <<registry, db_schema, tx, margs, applied, direction, names,
                   opi, mlog, sql_accum, invoked, merr, runs>>
    /\ UNCHANGED <<diffVars, makeVars, valVars, unVars, rtVars, recVars>>

MigrateNext ==
    \/ MigrateStart
    \/ StepFake
    \/ StepSql
    \/ BeginStep
    \/ ApplyOp
    \/ UnapplyOp
    \/ StatementFails
    \/ RecordAndCommit
    \/ MigrateReturn

SpecMigrate == MigrateInit /\ [][MigrateNext]_vars

SpecMigrateAny == MigrateAnyInit /\ [][MigrateNext]_vars

----------------------------------------------------------------------------
(* Properties of the migration runner *)

\* the run is a real one: neither fake nor sql
RealRun == ~margs.sql /\ ~margs.fake

\* one step of the runner keeps a migration whole: a failure inside the
\* transaction leaves the committed schema and registry as they were and the
\* migration unrecorded; the committed schema changes only by all the
\* statements of one migration together with its registry row
StepIsAtomic ==
    /\ (tx.open /\ mpc' = "failed") =>
          /\ db_schema' = db_schema
          /\ registry' = registry
          /\ ~tx'.open
          /\ (direction = "forward" /\ Head(names) \notin applied) =>
                Head(names) \notin registry'
    /\ (db_schema' # db_schema) =>
          IF direction = "forward"
          THEN /\ db_schema' = db_schema \cup StatementsOf(Head(names))
               /\ registry' = registry \cup {Head(names)}
          ELSE /\ db_schema' = db_schema \ StatementsOf(Head(names))
               /\ registry' = registry \ {Head(names)}

\* C2: each real migration step is atomic: the operations of one migration and
\* its registry update are one transaction, and when an operation fails midway
\* every statement the migration issued is rolled back and the migration is
\* not recorded as applied
C2_AtomicStep == [][StepIsAtomic]_vars

\* a real forward step failed after at least one statement was issued
C2_Witness ==
    /\ mpc = "failed"
    /\ merr = "DatabaseError"
    /\ RealRun
    /\ direction = "forward"
    /\ opi >= 1
    /\ Head(names) \notin registry
    /\ StatementsOf(Head(names)) \cap db_schema = {}

\* the migrations the registry lacked when the run started, ascending
PendingAtStart ==
    SelectSeq(iter_migration_files(MigrationDir), LAMBDA n : n \notin applied)

\* C4: with no target, a real run of migrate that ends normally has applied
\* exactly the migrations that were not recorded when it started, in
\* ascending numeric order, each once, whatever subset was recorded
C4_AppliesExactlyPending ==
    (mpc = "done" /\ runs > 0 /\ RealRun /\ margs.target = None) =>
        mlog = [i \in DOMAIN PendingAtStart |-> <<"applied", PendingAtStart[i]>>]

\* the migrations the run has applied so far
AppliedInRun == {mlog[i][2] : i \in DOMAIN mlog}

\* a failure of migration k = Head(names) of a forward run: the migrations
\* applied before it are recorded with their statements in the schema, the
\* committed schema and registry are those from before k began, k is not
\* recorded, and the rest of the plan is left as it is; from a failed run
\* the only step is the start of another run
FailureStopsTheRun ==
    /\ (tx.open /\ mpc' = "failed" /\ direction = "forward") =>
          /\ \A n \in AppliedInRun :
                n \in registry' /\ StatementsOf(n) \subseteq db_schema'
          /\ db_schema' = db_schema
          /\ registry' = registry
          /\ Head(names) \notin applied => Head(names) \notin registry'
          /\ names' = names
          /\ mlog' = mlog
    /\ mpc = "failed" => runs' = runs + 1

\* C11: when a forward run over several pending migrations fails at
\* migration k, every migration before k in the plan stays applied and
\* recorded, k is rolled back and not recorded, and no migration after k is
\* attempted
C11_FailureKeepsPrefix == [][FailureStopsTheRun]_vars

\* a real forward run failed at its second migration, with a third one planned
C11_Witness ==
    /\ mpc = "failed"
    /\ merr = "DatabaseError"
    /\ RealRun
    /\ direction = "forward"
    /\ Len(mlog) = 1
    /\ Len(names) = 2
    /\ mlog[1][2] \in registry
    /\ Head(names) \notin registry

----------------------------------------------------------------------------
(* Properties of the route and of fake mode *)

\* the first n names of the list
PrefixOf(all_names, n) == {all_names[i] : i \in 1 .. n}

\* the planned route for c and t of the claim, counted from 0
Planned(all_names, c, t, dir, route) ==
    IF t = c THEN dir = "noop" /\ route = <<>>
    ELSE IF t > c
    THEN dir = "forward" /\ route = SubSeq(all_names, c + 2, t + 1)
    ELSE dir = "backward" /\ route = Reversed(SubSeq(all_names, t + 2, c + 1))

\* a run with a target that resolve_target_name accepts starts, on a registry
\* that holds the first names of the list
StartsTowardsTarget(all_names) ==
    /\ runs' = runs + 1
    /\ margs'.target # None
    /\ ~(margs'.sql /\ margs'.fake)
    /\ merr' = ""
    /\ registry = PrefixOf(all_names, Cardinality(registry))

\* the run, which was not a preview of the SQL, has ended normally
EndsAtTarget(all_names) ==
    /\ mpc = "route" /\ mpc' = "done"
    /\ margs.target # None /\ ~margs.sql
    /\ applied = PrefixOf(all_names, Cardinality(applied))

RouteAsPlanned(all_names) ==
    /\ StartsTowardsTarget(all_names) =>
          Planned(all_names, Cardinality(registry) - 1,
                  IndexOf(all_names,
                          resolve_target_name(margs'.target, all_names).name),
                  direction', names')
    /\ EndsAtTarget(all_names) =>
          registry' = PrefixOf(all_names,
                         IndexOf(all_names,
                            resolve_target_name(margs.target, all_names).name) + 1)

\* C19: with the first c+1 names applied and the target at index t,
\* plan_route gives noop and no name when t = c, forward and
\* all_names[c+1..t] ascending when t > c, backward and all_names[t+1..c]
\* descending when t < c; the run that executes the route leaves exactly
\* all_names[0..t] applied
C19_PlanRoute ==
    [][RouteAsPlanned(iter_migration_files(margs.location))]_vars

\* a backward route over two migrations was executed down to the first one
C19_Witness ==
    /\ mpc = "done" /\ RealRun /\ margs.target # None
    /\ direction = "backward"
    /\ Len(mlog) = 2
    /\ applied = MigrationDir
    /\ registry = {Stems[1]}

\* C20: in fake mode each step of the run records (forward) or unrecords
\* (backward) the next planned migration until none is left, opens no
\* transaction and runs no operation: the schema stays as it was
C20_FakeTouchesRegistryOnly ==
    [][(mpc = "route" /\ margs.fake) =>
          /\ db_schema' = db_schema
          /\ tx' = NoTx
          /\ opi' = 0
          /\ IF names # <<>>
             THEN /\ names' = Tail(names)
                  /\ registry' = IF direction = "forward"
                                 THEN registry \cup {Head(names)}
                                 ELSE registry \ {Head(names)}
             ELSE /\ mpc' = "done"
                  /\ registry' = registry]_vars

\* a fake backward run has ended: the registry lost the planned migrations,
\* the schema still holds what they created
C20_Witness ==
    /\ mpc = "done" /\ margs.fake /\ direction = "backward"
    /\ Len(mlog) >= 1
    /\ \A i \in DOMAIN mlog :
          mlog[i][2] \notin registry /\ StatementsOf(mlog[i][2]) \subseteq db_schema
    /\ db_schema = UNION {StatementsOf(n) : n \in applied}

----------------------------------------------------------------------------
(* migrate(sql=True): the preview of a route *)

\* a step of a run under sql=True
SqlStep == mpc = "route" /\ margs.sql

\* C21: under sql=True no step of the run, forward or backward, changes the
\* database, opens a transaction, changes the registry or invokes a RunPython
\* callable
C21_SqlExecutesNothing ==
    [][SqlStep => /\ db_schema' = db_schema
                  /\ tx' = NoTx
                  /\ registry' = registry
                  /\ invoked' = invoked]_vars

\* what does hold: no statement reaches the database and the registry is
\* left alone, in both directions
SqlLeavesDatabaseAndRegistry ==
    [][SqlStep => /\ db_schema' = db_schema
                  /\ tx' = NoTx
                  /\ registry' = registry]_vars

\* and a forward preview, rendered by to_sql, invokes no callable
ForwardSqlInvokesNothing ==
    (margs.sql /\ direction = "forward") => invoked = <<>>

\* a backward preview of the migration that holds the RunPython has called
\* its reverse callable
BackwardSqlInvokesReverse ==
    /\ mpc = "done" /\ margs.sql /\ direction = "backward"
    /\ invoked = <<<<Stems[2], "reverse">>>>
    /\ registry = applied

\* a forward preview over the same migration has ended without a call
ForwardSqlPreviewed ==
    /\ mpc = "done" /\ margs.sql /\ direction = "forward"
    /\ \E i \in DOMAIN mlog : mlog[i] = <<"sql displayed", Stems[2]>>
    /\ invoked = <<>>

----------------------------------------------------------------------------
(* migrate on a directory whose numbers have a gap or a duplicate *)

\* the directories: any of the first MaxFiles files, with or without the twin
MigrationDirs == SUBSET (MigrationDir \cup {TwinStem})

MigrateDirsInit ==
    /\ registry = {}
    /\ db_schema = {}
    /\ tx = NoTx
    /\ mpc = "idle"
    /\ margs \in {[sql |-> FALSE, fake |-> FALSE, target |-> None,
                   location |-> d] : d \in MigrationDirs}
    /\ applied = {}
    /\ direction = "noop"
    /\ names = <<>>
    /\ opi = 0
    /\ mlog = <<>>
    /\ sql_accum = <<>>
    /\ invoked = <<>>
    /\ merr = ""
    /\ runs = 0
    /\ DiffIdle
    /\ MakeIdle
    /\ ValidateIdle
    /\ UnapplyIdle
    /\ RoundTripIdle
    /\ RecorderIdle

SpecMigrateDirs == MigrateDirsInit /\ [][MigrateNext]_vars

Numbers(migration_dir) == {NumberOf(f) : f \in migration_dir}

\* two files share a number
HasDuplicate(migration_dir) ==
    \E f, g \in migration_dir : f # g /\ NumberOf(f) = NumberOf(g)

\* a number between two numbers of the directory is missing
HasGap(migration_dir) ==
    \E a, b \in Numbers(migration_dir) :
        \E n \in a + 1 .. b - 1 : n \notin Numbers(migration_dir)

\* C13: when the numbered files have a missing number or two files share a
\* number, every run of migrate fails, and nothing is applied: no statement
\* is executed and no migration is recorded
C13_BrokenSequenceIsRejected ==
    (runs > 0 /\ (HasGap(margs.location) \/ HasDuplicate(margs.location))) =>
        /\ mpc = "failed"
        /\ registry = {}
        /\ db_schema = {}

\* what the code does with a gap: both files are applied, the run ends normally
GapIsApplied ==
    /\ margs.location = {Stems[1], Stems[3]}
    /\ mpc = "done" /\ RealRun
    /\ registry = margs.location
    /\ db_schema = StatementsOf(Stems[1]) \cup StatementsOf(Stems[3])

\* and with two files numbered 2: both are applied
DuplicateIsApplied ==
    /\ margs.location = {Stems[1], Stems[2], TwinStem}
    /\ mpc = "done" /\ RealRun
    /\ registry = margs.location

\* a directory without gap or duplicate is listed in one order only
ListingIsDetermined ==
    ~HasDuplicate(margs.location) =>
        Listings(margs.location) = {iter_migration_files(margs.location)}

----------------------------------------------------------------------------
(* The project states the differ is run on *)

\* the most models a project state holds
MaxModels == 2

\* the keys of a relation to table t, as the extractor fills them
Relation(t, label) ==
    [related_table |-> t, related_model |-> label, to_field |-> "id",
     on_delete |-> "CASCADE", referenced_type |-> "IntField"]

f_id == FieldState("id", "IntField", [primary_key |-> PyTrue])
f_name == FieldState("name", "CharField", [max_length |-> "200"])
f_name_col == FieldState("name", "CharField",
                         [max_length |-> "200", db_column |-> "title"])
f_title == FieldState("title", "CharField", [max_length |-> "200"])
f_title300 == FieldState("title", "CharField", [max_length |-> "300"])
f_age_null == FieldState("age", "IntField", [null |-> PyTrue])
f_age_lit == FieldState("age", "IntField", [default |-> "7"])
f_age_bare == FieldState("age", "IntField", EmptyDict)
f_age_callable == FieldState("age", "IntField", [default |-> "callable"])
f_age_enum == FieldState("age", "IntEnumField", [default |-> "Status.ACTIVE"])
f_author == FieldState("author", "ForeignKeyFieldInstance",
                       Relation("author", "models.Author"))
f_author_w == FieldState("author", "ForeignKeyFieldInstance",
                         Relation("writer", "models.Writer"))
f_book == FieldState("book", "ForeignKeyFieldInstance",
                     Relation("book", "models.Book"))
f_parent == FieldState("parent", "ForeignKeyFieldInstance",
                       Relation("author", "models.Author") @@ [null |-> PyTrue])
f_writer == FieldState("writer", "ForeignKeyFieldInstance",
                       Relation("author", "models.Author"))
f_books == FieldState("books", "BackwardFKRelation", EmptyDict)

\* field_states of a model: lowercased name -> FieldState
Fields(S) == [k \in {_lc(f.name) : f \in S} |-> CHOOSE f \in S : _lc(f.name) = k]

NameIndex == <<<<"name">>, FALSE>>

AuthorVariants ==
    { ModelState("Author", "author", Fields({f_id, f_name}), <<>>),
      ModelState("Author", "author", Fields({f_id, f_name}), <<NameIndex>>),
      ModelState("Author", "author", Fields({f_id, f_name, f_book}), <<>>),
      ModelState("Author", "author", Fields({f_id, f_name, f_parent}), <<>>),
      ModelState("Author", "author", Fields({f_id, f_name, f_books}), <<>>) }

WriterVariants ==
    { ModelState("Writer", "writer", Fields({f_id, f_name}), <<>>),
      ModelState("Writer", "writer", Fields({f_id, f_name}), <<NameIndex>>) }

BookVariants ==
    { ModelState("Book", "book", Fields({f_id, f_title}), <<>>),
      ModelState("Book", "book", Fields({f_id, f_name}), <<>>),
      ModelState("Book", "book", Fields({f_id, f_title, f_author}), <<>>),
      ModelState("Book", "book", Fields({f_id, f_title, f_author_w}), <<>>) }

\* the states that differ in their models
ModelLevelStates ==
    LET variants == AuthorVariants \cup WriterVariants \cup BookVariants
    IN {[n \in {m.name : m \in S} |-> CHOOSE m \in S : m.name = n] :
          S \in {T \in SUBSET variants :
                   /\ Cardinality(T) <= MaxModels
                   /\ \A x, y \in T : x.name = y.name => x = y}}

\* the states that differ in the fields of one model
BookFieldSets ==
    { {f_id, f_title}, {f_id, f_title300}, {f_id, f_name}, {f_id, f_name_col},
      {f_id, f_title, f_age_null}, {f_id, f_title, f_age_lit},
      {f_id, f_title, f_age_bare}, {f_id, f_title, f_age_callable},
      {f_id, f_title, f_age_enum}, {f_id, f_title, f_author},
      {f_id, f_title, f_writer} }

FieldLevelStates ==
    {[n \in {"Book"} |-> ModelState("Book", "book", Fields(S), <<>>)] :
       S \in BookFieldSets}

\* confirmed renames of Book's fields, in the insertion order of the dict
BookRenames ==
    { <<>>, <<<<"title", "name">>>>,
      <<<<"title", "name">>, <<"age", "name">>>>,
      <<<<"age", "name">>, <<"title", "name">>>>,
      <<<<"author", "writer">>>> }

\* the permutations of a set, as sequences
Permutations_(S) ==
    {p \in [1 .. Cardinality(S) -> S] : \A i, j \in DOMAIN p : p[i] = p[j] => i = j}

\* the iteration orders the removed and added dicts of diff_states can have
IterationOrders(from_models, to_models) ==
    [removed : Permutations_((DOMAIN from_models) \ (DOMAIN to_models)),
     added : Permutations_((DOMAIN to_models) \ (DOMAIN from_models))]

----------------------------------------------------------------------------
(* The differ and the replay of its output *)

DiffInit ==
    /\ \/ /\ from_state \in ModelLevelStates
          /\ to_state \in ModelLevelStates
          /\ rename_map = EmptyDict
       \/ /\ from_state \in FieldLevelStates
          /\ to_state \in FieldLevelStates
          /\ \E r \in BookRenames : rename_map = [n \in {"Book"} |-> r]
    /\ dpc = "init"
    /\ ops = <<>>
    /\ derr = ""
    /\ cur = from_state
    /\ pos = 0
    /\ ferr = ""
    /\ MigrateIdle
    /\ MakeIdle
    /\ ValidateIdle
    /\ UnapplyIdle
    /\ RoundTripIdle
    /\ RecorderIdle

\* ops = diff_states(from_state, to_state, rename_map=rename_map)
Diff ==
    /\ dpc = "init"
    /\ \E order \in IterationOrders(from_state, to_state) :
         LET Returned(r) ==
                 /\ dpc' = IF r.err = "" THEN "diffed" ELSE "raised"
                 /\ ops' = r.ops
                 /\ derr' = r.err
         IN Returned(diff_states(from_state, to_state, rename_map, order))
    /\ UNCHANGED <<from_state, to_state, rename_map, cur, pos, ferr>>
    /\ UNCHANGED <<migVars, makeVars, valVars, unVars, rtVars, recVars>>

\* one step of "for op in ops: op.mutate_state(state)"
Fold ==
    /\ dpc = "diffed"
    /\ ferr = ""
    /\ pos < Len(ops)
    /\ LET Mutated(r) ==
               /\ ferr' = r.err
               /\ cur' = r.models
               /\ pos' = IF r.err = "" THEN pos + 1 ELSE pos
       IN Mutated(mutate_state(ops[pos + 1], cur))
    /\ UNCHANGED <<from_state, to_state, rename_map, dpc, ops, derr>>
    /\ UNCHANGED <<migVars, makeVars, valVars, unVars, rtVars, recVars>>

DiffNext == Diff \/ Fold

SpecDiff == DiffInit /\ [][DiffNext]_vars

\* the fold ran over the whole list
Folded == dpc = "diffed" /\ ferr = "" /\ pos = Len(ops)

----------------------------------------------------------------------------
(* Properties of the differ and of the replay of its output *)

\* the positions of ops that hold an operation of this kind
OpsOfKind(kind) == {i \in DOMAIN ops : ops[i].kind = kind}

\* model x holds a foreign key to the table of model y
RefersTo(x, y) ==
    \E k \in DOMAIN x.field_states :
        LET fs == x.field_states[k]
        IN /\ fs.field_type \in FK_TYPES
           /\ Truthy(fs.options["related_table"])
           /\ _lc(fs.options["related_table"]) = _lc(y.db_table)

\* the models of to_state that from_state lacks, and the converse
AddedNames == (DOMAIN to_state) \ (DOMAIN from_state)
RemovedNames == (DOMAIN from_state) \ (DOMAIN to_state)
CommonNames == (DOMAIN from_state) \cap (DOMAIN to_state)

\* a state in the normal form the comparison of C1 allows: the schema fields
\* with their options as the differ compares them (defaults as literals, the
\* derived values of foreign keys filled in) and the index set on physical
\* column names
FieldNorm(fs) == [name |-> fs.name, options |-> _options_for_alter(fs)]

ModelNorm(ms) ==
    [name |-> ms.name, db_table |-> ms.db_table,
     fields |-> [k \in _schema_fields(ms) |-> FieldNorm(ms.field_states[k])],
     indexes |-> _model_indexes(ms)]

SameSchema(a, b) ==
    /\ DOMAIN a = DOMAIN b
    /\ \A n \in DOMAIN a : ModelNorm(a[n]) = ModelNorm(b[n])

\* the fold has ended: over the whole list, or at a raise
FoldEnded == dpc = "diffed" /\ (ferr # "" \/ pos = Len(ops))

\* C1: folding mutate_state of every operation of diff_states(A, B), in the
\* emitted order, over A yields a state equal to B: same models and db_table
\* values, same schema fields and options, same index sets, in normal form
C1_RoundTrip == FoldEnded => (ferr = "" /\ SameSchema(cur, to_state))

\* C1, on the diffs that rename no model: the round trip as far as it holds
C1_RoundTripWithoutModelRename ==
    (FoldEnded /\ OpsOfKind("RenameModel") = {})
        => (ferr = "" /\ SameSchema(cur, to_state))

\* the fold takes a RenameModel
FoldsRenameModel ==
    /\ dpc = "diffed"
    /\ pos < Len(ops)
    /\ pos' = pos + 1
    /\ ops[pos + 1].kind = "RenameModel"

\* the model a related_model label names: the extractor stores
\* "<module>.<name>", a hand-written state may store the bare name
ModelOfLabel(label) ==
    CASE label = "models.Author" -> "Author"
      [] label = "models.Writer" -> "Writer"
      [] label = "models.Book"   -> "Book"
      [] OTHER -> label

\* the options of all the fields of all the models
AllFieldOptions(models) ==
    UNION {{models[n].field_states[k].options :
              k \in DOMAIN models[n].field_states} : n \in DOMAIN models}

NoTableLabelLeft(op, models) ==
    op.old_db_table # op.new_db_table =>
        \A o \in AllFieldOptions(models) : o["related_table"] # op.old_db_table

NoModelLabelLeft(op, models) ==
    \A o \in AllFieldOptions(models) :
        ModelOfLabel(o["related_model"]) # op.old_name

\* C16: after RenameModel.mutate_state(old -> new) no field of any model
\* carries a related_table that is the old table or a related_model label
\* that names the old model
C16_NoStaleLabels ==
    [][FoldsRenameModel =>
         /\ NoTableLabelLeft(ops[pos + 1], cur')
         /\ NoModelLabelLeft(ops[pos + 1], cur')]_vars

\* the half that holds: related_table is rewritten
RelatedTableIsRewritten ==
    [][FoldsRenameModel => NoTableLabelLeft(ops[pos + 1], cur')]_vars

\* a RenameModel was folded over a state with a foreign key to the renamed
\* model: the table label is the new one, the model label still the old one
StaleModelLabel ==
    /\ dpc = "diffed" /\ pos >= 1 /\ ops[pos].kind = "RenameModel"
    /\ \E o \in AllFieldOptions(cur) :
          /\ o["related_table"] = ops[pos].new_db_table
          /\ ModelOfLabel(o["related_model"]) = ops[pos].old_name

\* field states without the two labels a rename rewrites
Unlabelled(field_states) ==
    [k \in DOMAIN field_states |->
       [field_states[k] EXCEPT !.options =
          Pop(@, {"related_table", "related_model"})]]

MovedUnchanged(op, old, new) ==
    /\ new.name = op.new_name
    /\ new.db_table = op.new_db_table
    /\ Unlabelled(new.field_states) = Unlabelled(old.field_states)
    /\ new.meta = old.meta

\* C17: RenameModel.mutate_state puts the model under the new key with the
\* new name and db_table, and with the field states and the meta - the
\* table-level indexes of meta.indexes - it had before
C17_RenameKeepsTheRest ==
    [][FoldsRenameModel =>
         /\ ops[pos + 1].new_name \in DOMAIN cur'
         /\ MovedUnchanged(ops[pos + 1], cur[ops[pos + 1].old_name],
                           cur'[ops[pos + 1].new_name])]_vars

\* the part that holds: the key, the name, the table and the field states
RenameKeepsFields ==
    [][FoldsRenameModel =>
         /\ ops[pos + 1].new_name \in DOMAIN cur'
         /\ MovedUnchanged(ops[pos + 1],
               [cur[ops[pos + 1].old_name] EXCEPT !.meta = [indexes |-> <<>>]],
               cur'[ops[pos + 1].new_name])]_vars

\* a model with a table-level index was renamed, and has none any more
RenameDroppedIndexes ==
    /\ dpc = "diffed" /\ pos >= 1 /\ ops[pos].kind = "RenameModel"
    /\ from_state[ops[pos].old_name].meta.indexes # <<>>
    /\ cur[ops[pos].new_name].meta.indexes = <<>>

----------------------------------------------------------------------------
(* The replay of hand-written operations: AlterField with partial options *)

\* the most operations of a replayed migration
MaxReplayOps == 2

title_options == [type |-> "CharField", null |-> PyFalse, max_length |-> "200"]

\* the operations of the migration: AlterField payloads that name some of
\* the options only, and an AddField and a RemoveField around them
ReplayOperations ==
    { AlterField("Book", "book", "title", title_options,
                 [null |-> PyTrue, max_length |-> "300"], None),
      AlterField("Book", "book", "title", title_options,
                 [type |-> "TextField"], None),
      AlterField("Book", "book", "title", title_options,
                 [type |-> "CharField", max_length |-> "300"], "name"),
      AlterField("Book", "book", "title", title_options,
                 [unique |-> PyTrue], None),
      AlterField("Book", "book", "id", [type |-> "IntField"],
                 [type |-> "BigIntField"], None),
      AlterField("Book", "book", "age", [type |-> "IntField", null |-> PyTrue],
                 [null |-> PyFalse, default |-> "7"], None),
      AlterField("Book", "book", "age", [type |-> "IntField", default |-> "7"],
                 [default |-> None], None),
      AddField("Book", "book", "age", "IntField", [null |-> PyTrue]),
      RemoveField("Book", "book", "age", None) }

ReplayedStates ==
    {[n \in {"Book"} |-> ModelState("Book", "book", Fields(S), <<>>)] :
       S \in { {f_id, f_title}, {f_id, f_title, f_age_null},
               {f_id, f_title, f_age_lit} }}

\* a state and the operations of a migration to fold over it
ReplayInit ==
    /\ from_state \in ReplayedStates
    /\ to_state = from_state
    /\ rename_map = EmptyDict
    /\ dpc = "diffed"
    /\ ops \in UNION {[1 .. n -> ReplayOperations] : n \in 1 .. MaxReplayOps}
    /\ derr = ""
    /\ cur = from_state
    /\ pos = 0
    /\ ferr = ""
    /\ MigrateIdle
    /\ MakeIdle
    /\ ValidateIdle
    /\ UnapplyIdle
    /\ RoundTripIdle
    /\ RecorderIdle

ReplayNext == Fold

SpecReplay == ReplayInit /\ [][ReplayNext]_vars

\* the fold takes an AlterField of a field the state has
FoldsAlterField ==
    /\ dpc = "diffed"
    /\ pos < Len(ops)
    /\ pos' = pos + 1
    /\ ops[pos + 1].kind = "AlterField"
    /\ _lc(ops[pos + 1].field_name) \in DOMAIN cur[ops[pos + 1].model_name].field_states

\* new is prev with the keys of new_options overwritten and nothing else
MergedInto(op, prev, new) ==
    /\ \A k \in OptionKeys \ DOMAIN op.new_options :
          new.options[k] = prev.options[k]
    /\ \A k \in (DOMAIN op.new_options) \ {"type"} :
          new.options[k] = op.new_options[k]
    /\ new.field_type = IF "type" \in DOMAIN op.new_options
                        THEN op.new_options["type"] ELSE prev.field_type
    /\ new.name = IF op.new_name # None THEN op.new_name ELSE op.field_name

\* C18: AlterField.mutate_state leaves every attribute of the existing field
\* state that is no key of new_options as it was - the type when no type is
\* given - and gives the keys of new_options their new values
C18_AlterMerges ==
    [][FoldsAlterField =>
         LET Dst(op) == _lc(IF op.new_name # None THEN op.new_name
                            ELSE op.field_name)
             Holds(op, before, after) ==
                 /\ Dst(op) \in DOMAIN after
                 /\ MergedInto(op, before[_lc(op.field_name)], after[Dst(op)])
         IN Holds(ops[pos + 1], cur[ops[pos + 1].model_name].field_states,
                  cur'[ops[pos + 1].model_name].field_states)]_vars

\* an AlterField that names null and max_length only was folded over a
\* CharField: the type and the other flags are the previous ones
C18_Witness ==
    /\ dpc = "diffed" /\ pos >= 1 /\ ferr = ""
    /\ ops[pos].kind = "AlterField"
    /\ DOMAIN ops[pos].new_options = {"null", "max_length"}
    /\ from_state = to_state
    /\ "title" \in DOMAIN cur["Book"].field_states
    /\ cur["Book"].field_states["title"].field_type = "CharField"
    /\ cur["Book"].field_states["title"].options["max_length"] = "300"
    /\ cur["Book"].field_states["title"].options["null"] = PyTrue
    /\ cur["Book"].field_states["id"].options["primary_key"] = PyTrue

\* the names of the CreateModel operations of a diff of nothing against models
CreateOrder(models) ==
    LET r == diff_states(EmptyProjectState, models, EmptyDict,
                         [removed |-> <<>>, added |-> <<>>])
        cs == SelectSeq(r.ops, LAMBDA op : op.kind = "CreateModel")
    IN [i \in DOMAIN cs |-> cs[i].name]

\* C5: among the models added in one diff a model is created after the model
\* its foreign key refers to; among the models removed the referencing model
\* is removed before the referenced one, and the removal order is the exact
\* reverse of the order in which the same models are created
C5_TopologicalOrder ==
    dpc = "diffed" =>
      /\ \A i, j \in OpsOfKind("CreateModel") :
            (i # j /\ RefersTo(to_state[ops[j].name], to_state[ops[i].name]))
                => i < j
      /\ \A i, j \in OpsOfKind("RemoveModel") :
            (i # j /\ RefersTo(from_state[ops[i].name], from_state[ops[j].name]))
                => i < j
      /\ LET rs == SelectSeq(ops, LAMBDA op : op.kind = "RemoveModel")
             removal == [i \in DOMAIN rs |-> rs[i].name]
         IN removal = Reversed(CreateOrder(Restrict(from_state, Range(removal))))

\* two models are created, the second refers to the first and sorts before it
C5_Witness ==
    /\ dpc = "diffed"
    /\ \E i, j \in OpsOfKind("CreateModel") :
          /\ i < j
          /\ RefersTo(to_state[ops[j].name], to_state[ops[i].name])
          /\ StrLess(ops[j].name, ops[i].name)

\* the rename score of removed model a against added model b
ScoreOf(a, b) == _model_rename_score(from_state[a], to_state[b])

\* added model b is in the creation batch: no removed model scores high enough
\* against it for the diff to take b as a rename of that model
InCreationBatch(b) ==
    /\ b \in AddedNames
    /\ \A a \in RemovedNames : ~ScoreAtLeastThreshold(ScoreOf(a, b))

\* two models of the creation batch refer to each other
MutualReference ==
    \E x, y \in AddedNames :
        /\ x # y
        /\ InCreationBatch(x)
        /\ InCreationBatch(y)
        /\ RefersTo(to_state[x], to_state[y])
        /\ RefersTo(to_state[y], to_state[x])

\* C6: when the models added in one diff (the creation batch) hold a
\* foreign-key cycle, diff_states raises the cyclic-dependency error and
\* returns no operation, so no CreateModel is emitted
C6_CycleRaises ==
    (dpc # "init" /\ MutualReference)
        => (dpc = "raised" /\ derr = "cycle" /\ ops = <<>>)

C6_Witness == dpc = "raised" /\ derr = "cycle" /\ MutualReference

\* C7: diff_states(A, A) returns an empty operation list
C7_DiffOfEqualStatesIsEmpty ==
    (dpc # "init" /\ from_state = to_state) => (dpc = "diffed" /\ ops = <<>>)

\* A = B holds an indexed model and a model with a foreign key
C7_Witness ==
    /\ dpc = "diffed"
    /\ from_state = to_state
    /\ \E n \in DOMAIN from_state : from_state[n].meta.indexes # <<>>
    /\ \E x, y \in DOMAIN from_state : RefersTo(from_state[x], from_state[y])

\* a and b are each other's best-scoring match, at or above the threshold:
\* no other candidate of either scores as high
MutualBest(a, b) ==
    /\ a \in RemovedNames
    /\ b \in AddedNames
    /\ ScoreAtLeastThreshold(ScoreOf(a, b))
    /\ \A b2 \in AddedNames \ {b} : ScoreGt(ScoreOf(a, b), ScoreOf(a, b2))
    /\ \A a2 \in RemovedNames \ {a} : ScoreGt(ScoreOf(a, b), ScoreOf(a2, b))

\* C9: when removed model a and added model b are each other's best-scoring
\* match at or above 0.90, the diff holds exactly one RenameModel for them,
\* which is RenameModel(a to b), no RemoveModel(a) and no CreateModel(b)
C9_MutualBestIsRenamed ==
    dpc = "diffed" =>
      \A a \in RemovedNames : \A b \in AddedNames :
        MutualBest(a, b) =>
          /\ Cardinality({i \in OpsOfKind("RenameModel") :
                            ops[i].old_name = a \/ ops[i].new_name = b}) = 1
          /\ \E i \in OpsOfKind("RenameModel") :
                ops[i].old_name = a /\ ops[i].new_name = b
          /\ \A i \in OpsOfKind("RemoveModel") : ops[i].name # a
          /\ \A i \in OpsOfKind("CreateModel") : ops[i].name # b

\* a mutual best match among two added candidates
C9_Witness ==
    /\ dpc = "diffed"
    /\ Cardinality(AddedNames) = 2
    /\ \E a \in RemovedNames : \E b \in AddedNames : MutualBest(a, b)

\* the confirmed renames given for model m, in insertion order
RenamePairsOf(m) == IF m \in DOMAIN rename_map THEN rename_map[m] ELSE <<>>

\* pair k of model m names a removed field and an added field of m
NamesRemovedAndAdded(m, k) ==
    LET old_fields == _schema_fields(from_state[m])
        new_fields == _schema_fields(to_state[m])
    IN /\ RenamePairsOf(m)[k][1] \in old_fields \ new_fields
       /\ RenamePairsOf(m)[k][2] \in new_fields \ old_fields

RenameFieldOps(m, old_name, new_name) ==
    {i \in OpsOfKind("RenameField") :
       /\ ops[i].model_name = m
       /\ ops[i].old_name = old_name
       /\ ops[i].new_name = new_name}

AlterWithNewNameOps(m, old_name, new_name) ==
    {i \in OpsOfKind("AlterField") :
       /\ ops[i].model_name = m
       /\ ops[i].field_name = old_name
       /\ ops[i].new_name = new_name}

AddOrRemoveFieldOps(m, field_names) ==
    {i \in OpsOfKind("AddField") \cup OpsOfKind("RemoveField") :
       ops[i].model_name = m /\ _lc(ops[i].field_name) \in field_names}

\* the two fields differ in nothing but the name and the db column
IdenticalButNameAndColumn(old_fs, new_fs) ==
    /\ old_fs.field_type = new_fs.field_type
    /\ Pop(old_fs.options, {"db_column"}) = Pop(new_fs.options, {"db_column"})

\* what the diff holds for the pair old_name -> new_name of model m: one
\* RenameField when rename holds, else one AlterField carrying new_name, and
\* no AddField or RemoveField of either name
OneRenameOrAlter(m, old_name, new_name, rename) ==
    /\ IF rename
       THEN /\ Cardinality(RenameFieldOps(m, old_name, new_name)) = 1
            /\ AlterWithNewNameOps(m, old_name, new_name) = {}
       ELSE /\ Cardinality(AlterWithNewNameOps(m, old_name, new_name)) = 1
            /\ RenameFieldOps(m, old_name, new_name) = {}
    /\ AddOrRemoveFieldOps(m, {old_name, new_name}) = {}

FirstToClaim(m, k) ==
    \A j \in 1 .. (k - 1) :
        ~(NamesRemovedAndAdded(m, j)
            /\ RenamePairsOf(m)[j][2] = RenamePairsOf(m)[k][2])

----------------------------------------------------------------------------
(* makemigrations: the models are edited, makemigrations is run *)

\* the most runs of makemigrations
MaxMakeRuns == 3

\* the most edits of the models
MaxEdits == 1

\* the largest number typed at "Enter number"
MaxChoice == 2

\* a project of these models
Project(S) == [n \in {m.name : m \in S} |-> CHOOSE m \in S : m.name = n]

\* the versions of the project's models, as the extractor returns them: no
\* model carries meta
ProjectVersions ==
    FieldLevelStates
    \cup { EmptyProjectState,
           Project({ModelState("Author", "author", Fields({f_id, f_name}), <<>>)}),
           Project({ModelState("Writer", "writer", Fields({f_id, f_name}), <<>>)}),
           Project({ModelState("Author", "author", Fields({f_id, f_name, f_parent}), <<>>)}),
           Project({ModelState("Author", "author", Fields({f_id, f_name}), <<>>),
                    ModelState("Book", "book", Fields({f_id, f_title, f_author}), <<>>)}),
           Project({ModelState("Author", "author", Fields({f_id, f_name, f_books}), <<>>),
                    ModelState("Book", "book", Fields({f_id, f_title, f_author}), <<>>)}),
           Project({ModelState("Author", "author", Fields({f_id, f_name, f_book}), <<>>),
                    ModelState("Book", "book", Fields({f_id, f_title, f_author}), <<>>)}) }

\* a developer who answers every yes/no prompt by y or n, and the menu by
\* a number
YesNo == {"y", "n"}
Menu == {Digit(d) : d \in 0 .. MaxChoice}

\* all that input() can give at a yes/no prompt, and at "Enter number"
Keyboard == {"y", "Y", "n", "", "x", EOFError, KeyboardInterrupt}
MenuKeyboard == Menu \cup {"", "x", EOFError, KeyboardInterrupt}

\* what can be typed at the two prompts of one removed field
Answer(keys, menu_keys) == [accept : keys, choice : menu_keys]

\* the removed fields of the common models that have a candidate
Questions(from_models, to_models) ==
    LET Enough(sc) == sc[1] >= min_score * sc[2]
        HasCandidate(old_name, old_fields, new_fields) ==
            /\ old_name \in (DOMAIN old_fields) \ (DOMAIN new_fields)
            /\ \E a \in (DOMAIN new_fields) \ (DOMAIN old_fields) :
                 Enough(score_candidate(old_name, old_fields[old_name], a,
                                        new_fields[a]))
    IN {q \in ((DOMAIN from_models) \cap (DOMAIN to_models)) \X Identifiers :
          HasCandidate(q[2], from_models[q[1]].field_states,
                       to_models[q[1]].field_states)}

\* the field keys that a model asked about has on one side only
ChangedFields(from_models, to_models) ==
    LET OnOneSide(old_keys, new_keys) ==
            (old_keys \ new_keys) \cup (new_keys \ old_keys)
    IN UNION {OnOneSide(DOMAIN from_models[q[1]].field_states,
                        DOMAIN to_models[q[1]].field_states) :
                q \in Questions(from_models, to_models)}

\* what can be typed at "Proceed anyway? [y/N]"; it is asked when the guard
\* lists a risky alter and no problem
Proceeds(operations, keys) ==
    IF problems_add(operations) = {} /\ risky_alters(operations) # {}
    THEN keys ELSE {""}

MakeInit ==
    /\ files = <<>>
    /\ app_models \in ProjectVersions
    /\ edited = FALSE
    /\ kin = EmptyDict
    /\ kout = "none"
    /\ kops = <<>>
    /\ kerr = ""
    /\ kruns = 0
    /\ edits = 0
    /\ DiffIdle
    /\ MigrateIdle
    /\ ValidateIdle
    /\ UnapplyIdle
    /\ RoundTripIdle
    /\ RecorderIdle

\* the developer changes the models
EditModelsAmong(versions) ==
    /\ edits < MaxEdits
    /\ edits' = edits + 1
    /\ app_models' \in versions \ {app_models}
    /\ edited' = TRUE
    /\ UNCHANGED <<files, kin, kout, kops, kerr, kruns>>
    /\ UNCHANGED <<diffVars, migVars, valVars, unVars, rtVars, recVars>>

EditModels == EditModelsAmong(ProjectVersions)

\* the run ends by an exception: nothing is written
MakeRaises(err, operations) ==
    /\ kout' = "raised"
    /\ kerr' = err
    /\ kops' = operations
    /\ files' = files

\* makemigrations(empty=empty): the conflict check, the scaffold, then
\* load_migration_state, the validation of the new state, the rename prompts,
\* diff_states, the validation of the operations and write_migration; keys
\* and menu_keys are what the developer types at the prompts
MakeMigrationsTyping(keys, menu_keys) ==
    /\ kruns < MaxMakeRuns
    /\ kruns' = kruns + 1
    /\ edited' = FALSE
    /\ \E empty \in BOOLEAN :
         LET \* the validation of the operations, then write_migration
             Written(d, guard, unsafe) ==
                 IF d.err # "" THEN MakeRaises(d.err, <<>>)
                 ELSE IF guard # "" THEN MakeRaises(guard, d.ops)
                 ELSE IF unsafe # "" THEN MakeRaises(unsafe, d.ops)
                 ELSE /\ kerr' = ""
                      /\ kops' = d.ops
                      /\ IF d.ops # <<>>
                         THEN /\ files' = write_migration(d.ops, files)
                              /\ kout' = "written"
                         ELSE /\ files' = files
                              /\ kout' = "noop"
             Validated(answers, d) ==
                 \E proceed \in Proceeds(d.ops, keys) :
                    /\ kin' = [empty |-> empty, answers |-> answers,
                               proceed |-> proceed]
                    /\ Written(d,
                          _validate_non_nullable_adds_and_warn_alters(
                             d.ops, _safe_input(proceed, FALSE)),
                          _validate_safe_alters(d.ops))
             \* the rename prompts and diff_states
             Diffed(old_models, new_state) ==
                 \E answers \in [Questions(old_models, new_state) ->
                                    Answer(keys, menu_keys)],
                    field_order \in Permutations_(
                                       ChangedFields(old_models, new_state)),
                    order \in IterationOrders(old_models, new_state) :
                   Validated(answers,
                      diff_states(old_models, new_state,
                         _choose_renames_interactive(old_models, new_state,
                                                     answers, field_order),
                         order))
             \* load_migration_state and the validation of the new state
             Loaded(old_state, new_state, related, index_columns) ==
                 IF old_state.err # ""
                 THEN /\ MakeRaises(old_state.err, <<>>)
                      /\ kin' = [empty |-> empty]
                 ELSE IF related # ""
                 THEN /\ MakeRaises(related, <<>>)
                      /\ kin' = [empty |-> empty]
                 ELSE IF index_columns # ""
                 THEN /\ MakeRaises(index_columns, <<>>)
                      /\ kin' = [empty |-> empty]
                 ELSE Diffed(old_state.models, new_state)
         IN IF _detect_conflicts(files) # {}
            THEN /\ MakeRaises("InvalidMigrationError: conflicting numbers", <<>>)
                 /\ kin' = [empty |-> empty]
            ELSE IF empty
            THEN IF \E i \in DOMAIN files : ~MatchesMigrationName(files[i])
                 THEN /\ MakeRaises(NonConforming, <<>>)
                      /\ kin' = [empty |-> empty]
                 ELSE /\ files' = write_migration(<<>>, files)
                      /\ kout' = "scaffold"
                      /\ kerr' = ""
                      /\ kops' = <<>>
                      /\ kin' = [empty |-> empty]
            ELSE Loaded(load_migration_state(files), app_models,
                        _validate_related_models(app_models),
                        _validate_index_columns(app_models))
    /\ UNCHANGED <<app_models, edits>>
    /\ UNCHANGED <<diffVars, migVars, valVars, unVars, rtVars, recVars>>

MakeMigrations == MakeMigrationsTyping(YesNo, Menu)

MakeNext == EditModels \/ MakeMigrations

SpecMake == MakeInit /\ [][MakeNext]_vars

----------------------------------------------------------------------------
(* Properties of makemigrations *)

\* C3: after makemigrations has written a migration for a model change,
\* running makemigrations again with unchanged models, replaying every
\* migration file, yields an empty operation list and writes no further file
C3_Convergence ==
    [][(/\ kout = "written"
        /\ ~edited
        /\ kruns' = kruns + 1
        /\ kout' # "scaffold")
       => (/\ kout' = "noop"
           /\ kops' = <<>>
           /\ files' = files)]_vars

----------------------------------------------------------------------------
(* makemigrations with anything typed at the prompts *)

f_age_req == FieldState("age", "IntField", [null |-> PyFalse])
f_age_req_lit == FieldState("age", "IntField", [null |-> PyFalse, default |-> "7"])
f_age_req_callable ==
    FieldState("age", "IntField", [null |-> PyFalse, default |-> "callable"])

\* the versions of a Book whose field is renamed, or made non-nullable
TypedVersions ==
    {[n \in {"Book"} |-> ModelState("Book", "book", Fields(S), <<>>)] :
       S \in { {f_id, f_title}, {f_id, f_name}, {f_id, f_title, f_age_null},
               {f_id, f_title, f_age_req}, {f_id, f_title, f_age_req_lit},
               {f_id, f_title, f_age_req_callable} }}

MakeTypedInit ==
    /\ files = <<>>
    /\ app_models \in TypedVersions
    /\ edited = FALSE
    /\ kin = EmptyDict
    /\ kout = "none"
    /\ kops = <<>>
    /\ kerr = ""
    /\ kruns = 0
    /\ edits = 0
    /\ DiffIdle
    /\ MigrateIdle
    /\ ValidateIdle
    /\ UnapplyIdle
    /\ RoundTripIdle
    /\ RecorderIdle

EditTypedModels == EditModelsAmong(TypedVersions)

MakeMigrationsAnyKey == MakeMigrationsTyping(Keyboard, MenuKeyboard)

MakeTypedNext == EditTypedModels \/ MakeMigrationsAnyKey

SpecMakeTyped == MakeTypedInit /\ [][MakeTypedNext]_vars

Interrupts == {EOFError, KeyboardInterrupt}

\* the rename questions that ended by an interrupt, at "Accept this rename?"
\* or, once that was declined, at "Enter number"; a question that is the
\* only one of its model is always asked
InterruptedQuestions(answers) ==
    {q \in DOMAIN answers :
       /\ \A r \in DOMAIN answers : r[1] = q[1] => r = q
       /\ \/ answers[q].accept \in Interrupts
          \/ /\ ~_safe_input(answers[q].accept, TRUE)
             /\ answers[q].choice \in Interrupts}

\* the run reached the prompts
Prompted(typed) == "answers" \in DOMAIN typed

\* the operations rename the field the question q was about
RenamesField(operations, q) ==
    \E i \in DOMAIN operations :
       /\ operations[i].kind = "RenameField"
       /\ operations[i].model_name = q[1]
       /\ operations[i].old_name = q[2]

InterruptAbandons(typed, outcome, operations, written, before) ==
    (Prompted(typed) /\ InterruptedQuestions(typed.answers) # {}) =>
        /\ written = before
        /\ outcome = "raised"
        /\ \A q \in InterruptedQuestions(typed.answers) :
              ~RenamesField(operations, q)

\* C14: a run of makemigrations in which a rename prompt ends by Ctrl-C or
\* EOF is abandoned: it writes no file, does not end by writing or by "no
\* changes", and no rename of the interrupted question is in its operations
C14_InterruptAbandons ==
    [][kruns' = kruns + 1 => InterruptAbandons(kin', kout', kops', files', files)]_vars

\* what the code does: Ctrl-C at "Accept this rename? [Y/n]" is the default
\* answer, yes, and the migration with the rename is written
InterruptConfirmsRename ==
    /\ kout = "written"
    /\ Prompted(kin)
    /\ \E q \in DOMAIN kin.answers :
          /\ kin.answers[q].accept = KeyboardInterrupt
          /\ RenamesField(kops, q)

\* an interrupt at the menu is the default answer, 0: no rename, and the run
\* goes on to the diff
InterruptAtMenuSkips ==
    /\ kops # <<>>
    /\ Prompted(kin)
    /\ \E q \in DOMAIN kin.answers :
          /\ kin.answers[q].accept = "n"
          /\ kin.answers[q].choice = KeyboardInterrupt
          /\ ~RenamesField(kops, q)

\* an AlterField that makes a nullable field non-nullable and carries
\* neither a literal default nor a database-level default
NullableToRequired(op) ==
    /\ op.kind = "AlterField"
    /\ Get(op.old_options, "null") = PyTrue
    /\ Get(op.new_options, "null") = PyFalse
    /\ Get(op.new_options, "db_default") = None
    /\ Get(op.new_options, "default") \in {None} \cup PY_CALLABLE_SENTINELS

\* an explicit yes
ExplicitYes(raw) ==
    /\ raw \notin Interrupts
    /\ strip_lower(raw) \in {"y", "yes", "1", "true", "t"}

Cancelled(outcome, err, written, before) ==
    /\ outcome = "raised"
    /\ err = "InvalidMigrationError: Migration cancelled"
    /\ written = before

ProceedGate(risky, typed, outcome, err, written, before) ==
    ("proceed" \in DOMAIN typed /\ risky) =>
        IF ExplicitYes(typed.proceed)
        THEN outcome = "written"
        ELSE Cancelled(outcome, err, written, before)

\* C15: when the operations hold an AlterField from nullable to non-nullable
\* without a literal or database-level default, anything typed but an
\* explicit yes - nothing, EOF, Ctrl-C - cancels the run with
\* InvalidMigrationError and no file is written; an explicit yes lets the
\* migration be written
C15_ProceedGate ==
    [][kruns' = kruns + 1 =>
         ProceedGate(\E i \in DOMAIN kops' : NullableToRequired(kops'[i]),
                     kin', kout', kerr', files', files)]_vars

\* the gate as the code has it: the default the extractor stores for a
\* callable counts as a default, and the question is not asked
ProceedGateButForCallable ==
    [][kruns' = kruns + 1 =>
         ProceedGate(\E i \in DOMAIN kops' :
                        /\ NullableToRequired(kops'[i])
                        /\ Get(kops'[i].new_options, "default")
                             \notin PY_CALLABLE_SENTINELS \ {"python_callable"},
                     kin', kout', kerr', files', files)]_vars

\* the alter to a callable default is written without a question
CallableAlterIsNotAsked ==
    /\ kout = "written"
    /\ "proceed" \in DOMAIN kin /\ kin.proceed = ""
    /\ \E i \in DOMAIN kops :
          /\ NullableToRequired(kops[i])
          /\ Get(kops[i].new_options, "default") = "callable"

\* the question was answered by Ctrl-C, and the run was cancelled
InterruptCancels ==
    /\ kout = "raised" /\ kerr = "InvalidMigrationError: Migration cancelled"
    /\ "proceed" \in DOMAIN kin /\ kin.proceed = KeyboardInterrupt

\* the question was answered by Y, and the migration was written
YesProceeds ==
    /\ kout = "written"
    /\ "proceed" \in DOMAIN kin /\ kin.proceed = "Y"
    /\ \E i \in DOMAIN kops : NullableToRequired(kops[i])

----------------------------------------------------------------------------
(* The validators of makemigrations on a batch of operations *)

\* the most operations in a batch
MaxBatch == 2

\* the options an added field "age" of Book can carry
AddedOptions ==
    { [null |-> PyFalse],
      [null |-> PyTrue],
      EmptyDict,
      [null |-> PyFalse, default |-> None],
      [null |-> PyFalse, default |-> "7"],
      [null |-> PyFalse, default |-> "callable"],
      [null |-> PyFalse, default |-> "python_callable"],
      [null |-> PyFalse, db_default |-> "0"],
      [null |-> PyFalse, default |-> None, db_default |-> None],
      f_age_bare.options, f_age_lit.options, f_age_null.options,
      f_age_callable.options }

\* the field types an AlterField of the batch goes from and to
AlteredTypes == {"SmallIntField", "IntField", "BigIntField", "CharField"}

\* AlterField operations that change nothing but the type, or that name it
\* on one side only, or under the key "field_type"
TypeAlters ==
    {AlterField("Book", "book", "age", [type |-> o], [type |-> n], None) :
       o \in AlteredTypes, n \in AlteredTypes}
    \cup { AlterField("Book", "book", "age", [null |-> PyFalse],
                      [type |-> "BigIntField", null |-> PyFalse], None),
           AlterField("Book", "book", "age", [field_type |-> "BigIntField"],
                      [field_type |-> "IntField"], None),
           AlterField("Book", "book", "age",
                      [type |-> "CharField", max_length |-> "100"],
                      [type |-> "CharField", max_length |-> "200"], None) }

\* the options of the foreign key Book.author when it points to a table
author_fk(related_table, related_model) ==
    [type |-> "ForeignKeyFieldInstance", related_table |-> related_table,
     related_model |-> related_model]

\* AlterField operations that retarget a foreign key, and the RenameModel
\* operations a batch may hold next to them
RetargetOperations ==
    { AlterField("Book", "book", "author", author_fk("author", "models.Author"),
                 author_fk("writer", "models.Writer"), None),
      AlterField("Book", "book", "author", author_fk("writer", "models.Writer"),
                 author_fk("author", "models.Author"), None),
      AlterField("Book", "book", "author", author_fk("author", "models.Author"),
                 author_fk("book", "models.Book"), None),
      AlterField("Book", "book", "author", author_fk("author", "models.Author"),
                 author_fk("author", "models.Writer"), None),
      RenameModel("Author", "Writer", "author", "writer"),
      RenameModel("Author", "Writer", "author", "author"),
      RenameModel("Writer", "Author", "writer", "author") }

\* the operations a batch is made of
BatchOperations ==
    {AddField("Book", "book", "age", "IntField", o) : o \in AddedOptions}
    \cup TypeAlters \cup RetargetOperations
    \cup { CreateModel("Book", "book", <<<<"id", "IntField", [primary_key |-> PyTrue]>>>>),
           CreateModel("Author", "author",
                       <<<<"id", "IntField", [primary_key |-> PyTrue]>>>>),
           AlterField("Book", "book", "age",
                      [type |-> "IntField", null |-> PyTrue],
                      [type |-> "IntField", null |-> PyFalse], None),
           AlterField("Book", "book", "age",
                      [type |-> "IntField", null |-> PyTrue],
                      [type |-> "IntField", null |-> PyFalse, default |-> "7"], None),
           AlterField("Book", "book", "age",
                      [type |-> "IntField", unique |-> PyFalse],
                      [type |-> "CharField", unique |-> PyTrue], None) }

ValidateInit ==
    /\ batch \in UNION {[1 .. n -> BatchOperations] : n \in 1 .. MaxBatch}
    /\ vpc = "init"
    /\ verdict = ""
    /\ verdict_alter = ""
    /\ DiffIdle
    /\ MigrateIdle
    /\ MakeIdle
    /\ UnapplyIdle
    /\ RoundTripIdle
    /\ RecorderIdle

\* _validate_non_nullable_adds_and_warn_alters(batch) and
\* _validate_safe_alters(batch)
Validate ==
    /\ vpc = "init"
    /\ vpc' = "checked"
    /\ \E proceed \in BOOLEAN :
         verdict' = _validate_non_nullable_adds_and_warn_alters(batch, proceed)
    /\ verdict_alter' = _validate_safe_alters(batch)
    /\ UNCHANGED batch
    /\ UNCHANGED <<diffVars, migVars, makeVars, unVars, rtVars, recVars>>

ValidateNext == Validate

SpecValidate == ValidateInit /\ [][ValidateNext]_vars

----------------------------------------------------------------------------
(* Properties of the validators *)

\* the models the batch creates
CreatedInBatch == {batch[i].name : i \in {j \in DOMAIN batch : batch[j].kind = "CreateModel"}}

\* an AddField of a non-nullable field that carries neither a literal
\* default nor a database-level default
NonNullableWithoutDefault(op) ==
    /\ op.kind = "AddField"
    /\ Get(op.options, "null") # PyTrue
    /\ Get(op.options, "db_default") = None
    /\ Get(op.options, "default") \in {None} \cup PY_CALLABLE_SENTINELS

RejectedAdd == verdict = "InvalidMigrationError: non-nullable field without a default"

\* C8: a batch with an AddField of a non-nullable field without a literal or
\* database-level default on a model the batch does not create is rejected
\* with InvalidMigrationError; when every such field is on a model the batch
\* creates, the guard does not reject the batch for it
C8_SafetyGate ==
    vpc = "checked" =>
        /\ (\E i \in DOMAIN batch :
              /\ NonNullableWithoutDefault(batch[i])
              /\ batch[i].model_name \notin CreatedInBatch) => RejectedAdd
        /\ (\A i \in DOMAIN batch :
              batch[i].kind = "AddField" => batch[i].model_name \in CreatedInBatch)
             => ~RejectedAdd

\* the gate as the code has it: the default the extractor stores for a
\* callable counts as a default
SafetyGateButForCallable ==
    vpc = "checked" =>
        /\ (\E i \in DOMAIN batch :
              /\ NonNullableWithoutDefault(batch[i])
              /\ Get(batch[i].options, "default") \notin PY_CALLABLE_SENTINELS \ {"python_callable"}
              /\ batch[i].model_name \notin CreatedInBatch) => RejectedAdd
        /\ (\A i \in DOMAIN batch :
              batch[i].kind = "AddField" => batch[i].model_name \in CreatedInBatch)
             => ~RejectedAdd

----------------------------------------------------------------------------
(* base.py, operations.py, schema_editor.py: reverting one migration.      *)
(* A statement is the tuple of its verb and the identifiers it names.      *)

MaxUnapplyOps == 3

\* PostgresSchemaEditor.sql_drop_model
sql_drop_model(db_table) == <<"DROP TABLE IF EXISTS", _lc(db_table)>>

\* PostgresSchemaEditor.sql_rename_model
sql_rename_model(old_table, new_table) ==
    <<"ALTER TABLE RENAME TO", old_table, new_table>>

\* PostgresSchemaEditor.sql_remove_field
sql_remove_field(db_table, field_name) ==
    <<"ALTER TABLE DROP COLUMN IF EXISTS", _lc(db_table), field_name>>

\* PostgresSchemaEditor._render_create_index_sql
_render_create_index_sql(db_table, columns, unique, name) ==
    <<IF unique THEN "CREATE UNIQUE INDEX" ELSE "CREATE INDEX",
      IF name = <<>> THEN default_index_name(db_table, columns, unique)
      ELSE name,
      _lc(db_table), columns>>

\* PostgresSchemaEditor._render_drop_index_sql
_render_drop_index_sql(name) == <<"DROP INDEX IF EXISTS", name>>

\* RemoveIndex.columns is None: kept as the empty tuple, which no index has
NoColumns == <<>>

\* what a call on an operation does: the exception it raises ("" when it
\* returns) and the statements it has executed through SchemaEditor._execute
Executed(statements) == [err |-> "", sql |-> statements]
Raises(exception) == [err |-> exception, sql |-> <<>>]

\* PostgresSchemaEditor._render_default_sql: None when the column gets no
\* DEFAULT clause; the defaults of the sample project are None, sentinels,
\* booleans and integers
_render_default_sql(default) ==
    IF default = None THEN None
    ELSE IF default \in PY_CALLABLE_SENTINELS THEN None
    ELSE IF default = PyTrue THEN "TRUE"
    ELSE IF default = PyFalse THEN "FALSE"
    ELSE default

\* PostgresSchemaEditor._should_index
_should_index(options) ==
    /\ Truthy(Get(options, "index"))
    /\ ~(Truthy(Get(options, "unique")) \/ Truthy(Get(options, "primary_key")))

\* PostgresSchemaEditor.sql_rename_field
sql_rename_field(db_table, old_name, new_name) ==
    <<"ALTER TABLE RENAME COLUMN", _lc(db_table), old_name, new_name>>

\* PostgresSchemaEditor.sql_for_field, on the scalar types of the sample project
sql_for_field(field_type, options) ==
    CASE field_type \in FK_TYPES ->
           (CASE Get(options, "referenced_type") = "SmallIntField" -> "SMALLINT"
              [] Get(options, "referenced_type") = "IntField" -> "INTEGER"
              [] Get(options, "referenced_type") = "BigIntField" -> "BIGINT"
              [] Get(options, "referenced_type") = "UUIDField" -> "UUID")
      [] field_type = "SmallIntField" -> "SMALLINT"
      [] field_type = "IntField" -> "INTEGER"
      [] field_type = "BigIntField" -> "BIGINT"
      [] field_type = "BooleanField" -> "BOOLEAN"
      [] field_type = "TextField" -> "TEXT"
      [] field_type = "CharField" ->
           "VARCHAR(" \o (IF "max_length" \in DOMAIN options
                          THEN options["max_length"] ELSE "255") \o ")"

\* options.get("null", False)
NullOf(options) == IF "null" \in DOMAIN options THEN options["null"] ELSE PyFalse

\* PostgresSchemaEditor._column_def: the column definition, kept as its parts
_column_def(name, field_type, options) ==
    [name |-> IF Truthy(Get(options, "db_column"))
              THEN Get(options, "db_column") ELSE name,
     type |-> sql_for_field(field_type, options),
     primary_key |-> Truthy(Get(options, "primary_key")),
     not_null |-> ~Truthy(NullOf(options)),
     unique |-> Truthy(Get(options, "unique")),
     default |-> IF "default" \in DOMAIN options
                 THEN _render_default_sql(options["default"]) ELSE None,
     references |-> IF field_type \in FK_TYPES
                    THEN IF "to_field" \in DOMAIN options
                         THEN <<Get(options, "related_table"), options["to_field"]>>
                         ELSE <<Get(options, "related_table"), "id">>
                    ELSE <<>>]

\* the CREATE INDEX statements that follow the columns asking for an index
FieldIndexes(db_table, fields) ==
    LET indexed == SelectSeq(fields, LAMBDA f : _should_index(f[3]))
    IN [i \in DOMAIN indexed |->
          _render_create_index_sql(
              db_table, <<_column_def(indexed[i][1], indexed[i][2],
                                      indexed[i][3]).name>>, FALSE, <<>>)]

\* PostgresSchemaEditor.sql_create_model: the statements create_model
\* executes one by one
sql_create_model(db_table, fields) ==
    << <<"CREATE TABLE", _lc(db_table),
         [i \in DOMAIN fields |->
            _column_def(fields[i][1], fields[i][2], fields[i][3])]>> >>
    \o FieldIndexes(db_table, fields)

\* PostgresSchemaEditor.sql_add_field: the statements add_field executes
sql_add_field(db_table, field_name, field_type, options) ==
    << <<"ALTER TABLE ADD COLUMN", _lc(db_table),
         _column_def(field_name, field_type, options)>> >>
    \o FieldIndexes(db_table, <<<<field_name, field_type, options>>>>)

\* PostgresSchemaEditor._sql_alter_type_if_supported: a statement for two
\* CharFields of different, stated max_length, and for nothing else
_sql_alter_type_if_supported(db_table, field_name, old, new) ==
    IF Get(old, "type") # "CharField" \/ Get(new, "type") # "CharField"
    THEN <<>>
    ELSE IF "max_length" \notin DOMAIN old \/ "max_length" \notin DOMAIN new
    THEN <<>>
    ELSE IF old["max_length"] # new["max_length"]
    THEN << <<"ALTER TABLE ALTER COLUMN TYPE", _lc(db_table), field_name,
              "VARCHAR(" \o new["max_length"] \o ")">> >>
    ELSE <<>>

\* PostgresSchemaEditor.sql_alter_field
sql_alter_field(db_table, field_name, old_options, new_options, new_name) ==
    LET renamed == Truthy(new_name) /\ new_name # field_name
        old_index == _should_index(old_options)
        new_index == _should_index(new_options)
        old_colname == IF Truthy(Get(old_options, "db_column"))
                       THEN Get(old_options, "db_column") ELSE field_name
        new_colname == IF Truthy(Get(new_options, "db_column"))
                       THEN Get(new_options, "db_column")
                       ELSE IF Truthy(new_name) THEN new_name ELSE field_name
    IN _sql_alter_type_if_supported(db_table, field_name, old_options, new_options)
       \o (IF NullOf(old_options) = NullOf(new_options) THEN <<>>
           ELSE IF Truthy(NullOf(new_options))
           THEN << <<"ALTER TABLE ALTER COLUMN DROP NOT NULL",
                     _lc(db_table), field_name>> >>
           ELSE << <<"ALTER TABLE ALTER COLUMN SET NOT NULL",
                     _lc(db_table), field_name>> >>)
       \o (IF Get(old_options, "default") = Get(new_options, "default") THEN <<>>
           ELSE IF _render_default_sql(Get(new_options, "default")) # None
           THEN << <<"ALTER TABLE ALTER COLUMN SET DEFAULT", _lc(db_table),
                     field_name,
                     _render_default_sql(Get(new_options, "default"))>> >>
           ELSE << <<"ALTER TABLE ALTER COLUMN DROP DEFAULT",
                     _lc(db_table), field_name>> >>)
       \o (IF renamed THEN <<sql_rename_field(db_table, field_name, new_name)>>
           ELSE <<>>)
       \o (IF old_index /\ (~new_index \/ old_colname # new_colname)
           THEN <<_render_drop_index_sql(
                    default_index_name(db_table, <<old_colname>>, FALSE))>>
           ELSE <<>>)
       \o (IF new_index /\ (~old_index \/ old_colname # new_colname)
           THEN <<_render_create_index_sql(db_table, <<new_colname>>, FALSE, <<>>)>>
           ELSE <<>>)

\* Operation.apply(conn, schema_editor) with a PostgresSchemaEditor
apply(op) ==
    CASE op.kind = "CreateModel" ->
           Executed(sql_create_model(op.db_table, op.fields))
      [] op.kind = "RenameModel" ->
           IF op.old_db_table # op.new_db_table
           THEN Executed(<<sql_rename_model(op.old_db_table, op.new_db_table)>>)
           ELSE Executed(<<>>)
      [] op.kind = "RemoveModel" -> Executed(<<sql_drop_model(op.db_table)>>)
      [] op.kind = "AddField" ->
           Executed(sql_add_field(op.db_table, op.field_name, op.field_type,
                                  op.options))
      \* remove_field(conn, db_table, field_name) is called with the keyword
      \* db_column, which it does not take
      [] op.kind = "RemoveField" -> Raises("TypeError")
      \* rename_field likewise, with old_db_column and new_db_column
      [] op.kind = "RenameField" -> Raises("TypeError")
      [] op.kind = "AlterField" ->
           Executed(sql_alter_field(op.db_table, op.field_name, op.old_options,
                                    op.new_options, op.new_name))
      [] op.kind = "CreateIndex" ->
           Executed(<<_render_create_index_sql(op.db_table, op.columns,
                                               op.unique, op.name)>>)
      [] op.kind = "RemoveIndex" -> Executed(<<_render_drop_index_sql(op.name)>>)

\* Operation.unapply(conn, schema_editor) with a PostgresSchemaEditor
unapply(op) ==
    CASE op.kind = "CreateModel" -> Executed(<<sql_drop_model(op.db_table)>>)
      [] op.kind = "RenameModel" ->
           IF op.old_db_table # op.new_db_table
           THEN Executed(<<sql_rename_model(op.new_db_table, op.old_db_table)>>)
           ELSE Executed(<<>>)
      [] op.kind = "RemoveModel" -> Raises("RuntimeError")
      [] op.kind = "AddField" ->
           Executed(<<sql_remove_field(op.db_table, op.field_name)>>)
      [] op.kind = "RemoveField" -> Raises("RuntimeError")
      \* rename_field(conn, db_table, old_name, new_name) is called with the
      \* keywords old_db_column and new_db_column, which it does not take
      [] op.kind = "RenameField" -> Raises("TypeError")
      [] op.kind = "AlterField" ->
           Executed(sql_alter_field(
                      op.db_table,
                      IF Truthy(op.new_name) THEN op.new_name ELSE op.field_name,
                      op.new_options, op.old_options,
                      IF Truthy(op.new_name) THEN op.field_name ELSE None))
      [] op.kind = "CreateIndex" -> Executed(<<_render_drop_index_sql(op.name)>>)
      [] op.kind = "RemoveIndex" ->
           IF op.columns = NoColumns THEN Raises("RuntimeError")
           ELSE Executed(<<_render_create_index_sql(op.db_table, op.columns,
                                                    op.unique, op.name)>>)

\* the operations a migration of the sample project is made of
UnapplyOperations ==
    { CreateModel("Book", "book", <<>>),
      RenameModel("Author", "Writer", "author", "writer"),
      RenameModel("Author", "Writer", "author", "author"),
      RemoveModel("Book", "book"),
      RemoveModel("Author", "author"),
      AddField("Book", "book", "title", "CharField", <<>>),
      RemoveField("Book", "book", "age", None),
      RemoveField("Author", "author", "name", "name"),
      RenameField("Book", "book", "name", "title", None, None),
      CreateIndex("Book", "book", <<"title">>, FALSE),
      RemoveIndex("Book", "book", default_index_name("book", <<"title">>, TRUE),
                  <<"title">>, TRUE),
      RemoveIndex("Book", "book", default_index_name("book", <<"age">>, FALSE),
                  NoColumns, FALSE) }

\* Migration.operations: _validated_ops accepts any list of Operation
UnapplyInit ==
    /\ uops \in UNION {[1..n -> UnapplyOperations] : n \in 1..MaxUnapplyOps}
    /\ upos = 0
    /\ usql = <<>>
    /\ uerr = ""
    /\ upc = "running"
    /\ umode \in {"apply", "unapply"}
    /\ ucalls = <<>>
    /\ MigrateIdle
    /\ DiffIdle
    /\ MakeIdle
    /\ ValidateIdle
    /\ RoundTripIdle
    /\ RecorderIdle

\* a loop of BaseMigration.unapply that walks the list from its first item
CurrentUnapplied_Forward == uops[upos + 1]

\* the operation the loop of BaseMigration.unapply handles next
CurrentUnapplied == Reversed(uops)[upos + 1]

\* the operation the loop of BaseMigration.apply handles next
CurrentApplied == uops[upos + 1]

\* one iteration of "for op in ...: await op.apply/unapply(conn, schema_editor)"
\* on the operation op, result being what the call does
UnapplyLoop(op, result) ==
    /\ ucalls' = Append(ucalls, op)
    /\ usql' = usql \o result.sql
    /\ uerr' = result.err
    /\ upos' = IF result.err = "" THEN upos + 1 ELSE upos
    /\ upc' = IF result.err # "" THEN "raised"
              ELSE IF upos + 1 = Len(uops) THEN "done" ELSE "running"

\* "for op in reversed(cls._validated_ops()): await op.unapply(...)"
BaseMigration_unapply ==
    /\ upc = "running" /\ umode = "unapply"
    /\ upos < Len(uops)
    /\ UnapplyLoop(CurrentUnapplied, unapply(CurrentUnapplied))
    /\ UNCHANGED <<uops, umode>>
    /\ UNCHANGED <<diffVars, migVars, makeVars, valVars, rtVars, recVars>>

\* "for op in cls._validated_ops(): await op.apply(conn, schema_editor)"
BaseMigration_apply ==
    /\ upc = "running" /\ umode = "apply"
    /\ upos < Len(uops)
    /\ UnapplyLoop(CurrentApplied, apply(CurrentApplied))
    /\ UNCHANGED <<uops, umode>>
    /\ UNCHANGED <<diffVars, migVars, makeVars, valVars, rtVars, recVars>>

UnapplyNext == BaseMigration_unapply \/ BaseMigration_apply

SpecUnapply == UnapplyInit /\ [][UnapplyNext]_vars

Irreversible(op) == op.kind \in {"RemoveModel", "RemoveField"}

\* BaseMigration.unapply is about to call an operation
Unapplying == upc = "running" /\ umode = "unapply"

\* C12: unapplying a RemoveModel or a RemoveField always fails with
\* NotReversibleMigrationError and issues no SQL
C12_NotReversibleError ==
    [][(Unapplying /\ Irreversible(CurrentUnapplied)) =>
          /\ upc' = "raised"
          /\ uerr' = "NotReversibleMigrationError"
          /\ usql' = usql]_vars

\* what the code does instead: the call fails and issues no SQL, but with
\* the built-in RuntimeError
RemovalUnapplyRaisesRuntimeError ==
    [][(Unapplying /\ Irreversible(CurrentUnapplied)) =>
          /\ upc' = "raised"
          /\ uerr' = "RuntimeError"
          /\ usql' = usql]_vars

\* a RemoveField is reached after a later operation of the migration was
\* reverted, and the call ends there
UnapplyStopsAtRemoval ==
    /\ upc = "raised" /\ uerr = "RuntimeError" /\ umode = "unapply"
    /\ Irreversible(CurrentUnapplied)
    /\ Len(usql) = 1

\* what the calls logged so far have executed, in call order
SqlOfCalls ==
    Concat([k \in DOMAIN ucalls |->
              IF umode = "apply" THEN apply(ucalls[k]).sql
              ELSE unapply(ucalls[k]).sql])

\* C22: BaseMigration.apply calls the operations in list order and
\* BaseMigration.unapply calls the same operations in the reverse order, the
\* last one first; a call that raises ends the loop, and a loop that ends
\* normally has called every operation once
C22_ListOrderAndReverse ==
    /\ umode = "apply" => \A k \in DOMAIN ucalls : ucalls[k] = uops[k]
    /\ umode = "unapply" =>
          \A k \in DOMAIN ucalls : ucalls[k] = uops[Len(uops) + 1 - k]
    /\ Len(ucalls) = upos + (IF upc = "raised" THEN 1 ELSE 0)
    /\ upc = "done" => Len(ucalls) = Len(uops)
    /\ usql = SqlOfCalls

\* an unapply over a list whose ends differ has ended normally: every
\* operation has executed a statement, the last one first
C22_Witness ==
    /\ upc = "done" /\ umode = "unapply"
    /\ Len(uops) >= MaxUnapplyOps
    /\ uops[1] # uops[Len(uops)]
    /\ Len(usql) = Len(uops)
    /\ usql[1] = unapply(uops[Len(uops)]).sql[1]

\* an apply over such a list has ended normally, the first operation first
AppliedInListOrder ==
    /\ upc = "done" /\ umode = "apply"
    /\ Len(uops) >= MaxUnapplyOps
    /\ uops[1] # uops[Len(uops)]
    /\ Len(usql) = Len(uops)
    /\ usql[1] = apply(uops[1]).sql[1]

----------------------------------------------------------------------------
(* diff_states and the iteration order of its dicts *)

\* C24: the operation list (or the exception) diff_states returns for an old
\* state, a new state and a rename map is the same whatever order the dicts
\* of removed and added models are iterated in
C24_OrderIndependent ==
    dpc # "init" =>
        \A order \in IterationOrders(from_state, to_state) :
           diff_states(from_state, to_state, rename_map, order)
             = [err |-> derr, ops |-> ops]

\* a removed model scores the same against two added models: the diff paired
\* it with one of them, and another iteration order pairs it with the other
TiePairedEitherWay ==
    /\ dpc = "diffed"
    /\ Len(ops) >= 1 /\ ops[1].kind = "RenameModel"
    /\ \E order \in IterationOrders(from_state, to_state) :
          LET Other(r) == /\ r.err = ""
                          /\ r.ops[1].kind = "RenameModel"
                          /\ r.ops[1].old_name = ops[1].old_name
                          /\ r.ops[1].new_name # ops[1].new_name
          IN Other(diff_states(from_state, to_state, rename_map, order))

\* the iteration order has no other effect: two orders that detect the same
\* model renames return the same result
SameRenamesSameDiff ==
    dpc = "diffed" =>
        \A order \in IterationOrders(from_state, to_state) :
           LET Same(r) ==
                   (r.err = "" /\
                    SelectSeq(r.ops, LAMBDA op : op.kind = "RenameModel")
                      = SelectSeq(ops, LAMBDA op : op.kind = "RenameModel"))
                   => r.ops = ops
           IN Same(diff_states(from_state, to_state, rename_map, order))

----------------------------------------------------------------------------
(* AlterField.to_code and AlterField.mutate_state *)

\* the fold is about to apply an AlterField of the diff
AtAlterField ==
    /\ dpc = "diffed" /\ ferr = "" /\ pos < Len(ops)
    /\ ops[pos + 1].kind = "AlterField"

\* C25: the AlterField that the output of to_code constructs has the same
\* effect under mutate_state as the operation it was rendered from
C25_AlterFieldCodeRoundTrip ==
    AtAlterField =>
        mutate_state(AlterField_to_code(ops[pos + 1]), cur)
          = mutate_state(ops[pos + 1], cur)

\* the options an AlterField changes to None
ChangedToNone(op) ==
    {k \in DOMAIN op.new_options :
       op.new_options[k] = None /\ Get(op.old_options, k) # None}

\* the field an AlterField leaves behind in the state cur
FieldAfter(op) ==
    mutate_state(op, cur).models[op.model_name].field_states[
        _lc(IF Truthy(op.new_name) THEN op.new_name ELSE op.field_name)]

\* what holds: the rendered operation leaves the same type and the same value
\* for every option the operation changes to a value other than None
RoundTripOnValuesSet ==
    AtAlterField =>
        LET Agree(op, original, rebuilt) ==
                /\ original.field_type = rebuilt.field_type
                /\ \A k \in (DOMAIN op.new_options) \ {"type"} :
                      (op.new_options[k] # None
                       /\ op.new_options[k] # Get(op.old_options, k))
                        => rebuilt.options[k] = original.options[k]
        IN Agree(ops[pos + 1], FieldAfter(ops[pos + 1]),
                 FieldAfter(AlterField_to_code(ops[pos + 1])))

\* an AlterField that drops a default: replayed from its code, the field
\* keeps the default
DroppedDefaultIsKept ==
    /\ AtAlterField
    /\ "default" \in ChangedToNone(ops[pos + 1])
    /\ "default" \notin DOMAIN AlterField_to_code(ops[pos + 1]).new_options
    /\ mutate_state(AlterField_to_code(ops[pos + 1]), cur) = Ok(cur)

\* an AlterField that changes options to other values is reconstructed
AlterFieldReconstructed ==
    /\ AtAlterField
    /\ ChangedToNone(ops[pos + 1]) = {}
    /\ mutate_state(ops[pos + 1], cur) # Ok(cur)
    /\ mutate_state(AlterField_to_code(ops[pos + 1]), cur)
          = mutate_state(ops[pos + 1], cur)

----------------------------------------------------------------------------
(* the non-nullable guard and callable defaults *)

\* an AddField of a non-nullable field whose only default is the given
\* sentinel
SentinelOnlyAdd(op, sentinel) ==
    /\ op.kind = "AddField"
    /\ Get(op.options, "null") # PyTrue
    /\ Get(op.options, "db_default") = None
    /\ Get(op.options, "default") = sentinel

\* C27: a batch that adds, to a model it does not create, a non-nullable
\* field whose only default is a callable as the extractor stores it is
\* rejected with InvalidMigrationError
C27_CallableIsNoBackfill ==
    vpc = "checked" =>
        ((\E i \in DOMAIN batch :
            /\ SentinelOnlyAdd(batch[i], _safe_default(SomeCallable))
            /\ batch[i].model_name \notin CreatedInBatch) => RejectedAdd)

\* what holds: the guard rejects the sentinel "python_callable", which the
\* extractor never stores
PythonCallableIsRejected ==
    vpc = "checked" =>
        ((\E i \in DOMAIN batch :
            /\ SentinelOnlyAdd(batch[i], "python_callable")
            /\ batch[i].model_name \notin CreatedInBatch) => RejectedAdd)

\* the batch made of one such AddField has passed the guard
CallableAddAccepted ==
    /\ vpc = "checked" /\ Len(batch) = 1
    /\ SentinelOnlyAdd(batch[1], _safe_default(SomeCallable))
    /\ verdict = ""

----------------------------------------------------------------------------
(* _validate_safe_alters: type changes and foreign-key retargets *)

RejectedAlter ==
    verdict_alter = "InvalidMigrationError: unsupported AlterField changes"

\* the type an AlterField goes from and the type it goes to
OldType(op) == Get(_normalize_alter_options(op.old_options), "type")
NewType(op) == Get(_normalize_alter_options(op.new_options), "type")

\* the strict widenings along SmallIntField < IntField < BigIntField
IntegerWidenings ==
    { <<"SmallIntField", "IntField">>, <<"SmallIntField", "BigIntField">>,
      <<"IntField", "BigIntField">> }

\* the type is kept (CharField to CharField included) or widened
AcceptableTransition(op) ==
    OldType(op) = NewType(op) \/ <<OldType(op), NewType(op)>> \in IntegerWidenings

\* the options other than the type that an AlterField changes
OtherChanges(op) ==
    {k \in ((DOMAIN op.old_options) \cup (DOMAIN op.new_options))
              \ {"type", "field_type"} :
       Get(op.old_options, k) # Get(op.new_options, k)}

\* C28: a batch holding an AlterField whose type transition is neither
\* "unchanged" nor a strict integer widening is rejected with
\* InvalidMigrationError, and a batch whose AlterFields change nothing but
\* the type, each by an acceptable transition, is accepted
C28_TypeChangeGate ==
    vpc = "checked" =>
        /\ (\E i \in DOMAIN batch :
              batch[i].kind = "AlterField" /\ ~AcceptableTransition(batch[i]))
             => RejectedAlter
        /\ (\A i \in DOMAIN batch :
              batch[i].kind = "AlterField" =>
                 AcceptableTransition(batch[i]) /\ OtherChanges(batch[i]) = {})
             => ~RejectedAlter

\* a widening has been accepted, and a narrowing rejected
C28_Witness ==
    /\ vpc = "checked" /\ Len(batch) = 1 /\ batch[1].kind = "AlterField"
    /\ <<OldType(batch[1]), NewType(batch[1])>> = <<"SmallIntField", "BigIntField">>
    /\ ~RejectedAlter

NarrowingRejected ==
    /\ vpc = "checked" /\ Len(batch) = 1 /\ batch[1].kind = "AlterField"
    /\ <<NewType(batch[1]), OldType(batch[1])>> \in IntegerWidenings
    /\ RejectedAlter

\* the AlterField changes related_table
Retargets(op) ==
    /\ op.kind = "AlterField"
    /\ Get(op.old_options, "related_table") # Get(op.new_options, "related_table")

\* the batch holds the RenameModel that moves the table the key pointed to
\* onto the table it points to now
RenamedAlong(op) ==
    \E j \in DOMAIN batch :
       /\ batch[j].kind = "RenameModel"
       /\ batch[j].old_db_table = Get(op.old_options, "related_table")
       /\ batch[j].new_db_table = Get(op.new_options, "related_table")

\* C29: a batch holding an AlterField that changes related_table from T1 to
\* T2 without a RenameModel from table T1 to table T2 is rejected with
\* InvalidMigrationError; a batch whose AlterFields change nothing but the
\* target of a foreign key, each along such a RenameModel, is accepted
C29_RetargetGate ==
    vpc = "checked" =>
        /\ (\E i \in DOMAIN batch :
              Retargets(batch[i]) /\ ~RenamedAlong(batch[i])) => RejectedAlter
        /\ (\A i \in DOMAIN batch :
              batch[i].kind = "AlterField" =>
                 /\ OldType(batch[i]) = NewType(batch[i])
                 /\ OtherChanges(batch[i]) \subseteq {"related_table", "related_model"}
                 /\ Retargets(batch[i]) => RenamedAlong(batch[i]))
             => ~RejectedAlter

\* a retarget from author to writer next to the rename of author to writer
\* has been accepted
C29_Witness ==
    /\ vpc = "checked" /\ Len(batch) = 2
    /\ \E i, j \in DOMAIN batch :
          /\ Retargets(batch[i]) /\ batch[j].kind = "RenameModel"
          /\ RenamedAlong(batch[i])
    /\ ~RejectedAlter

\* the same retarget next to the rename of another pair of tables has been
\* rejected
RetargetWithOtherRenameRejected ==
    /\ vpc = "checked" /\ Len(batch) = 2
    /\ \E i, j \in DOMAIN batch :
          /\ Retargets(batch[i]) /\ batch[j].kind = "RenameModel"
          /\ ~RenamedAlong(batch[i])
    /\ RejectedAlter

----------------------------------------------------------------------------
(* makemigrations on snapshots that carry table-level indexes *)

\* table-level declarations on a Book with the fields id, name (stored in
\* the column title) and the foreign key author: on a field name, on an
\* explicit column, on the column of the foreign key, and on names the model
\* does not have
IndexDeclarations ==
    { <<>>,
      <<<<<<"name">>, FALSE>>>>,
      <<<<<<"title">>, FALSE>>>>,
      <<<<<<"author">>, FALSE>>>>,
      <<<<<<"author_id">>, FALSE>>>>,
      <<<<<<"author_id", "title">>, TRUE>>>>,
      <<<<<<"age">>, FALSE>>>>,
      <<<<<<"book_id">>, FALSE>>>>,
      <<<<<<"name", "age">>, TRUE>>>>,
      <<<<<<"name">>, FALSE>>, <<<<"age">>, TRUE>>>>,
      <<<<<<"age">>, FALSE>>, <<<<"author_id">>, FALSE>>>> }

IndexedVersions ==
    {Project({ModelState("Author", "author", Fields({f_id, f_name}), <<>>),
              ModelState("Book", "book", Fields({f_id, f_name_col, f_author}), ixs)}) :
       ixs \in IndexDeclarations}

MakeIndexedInit ==
    /\ files = <<>>
    /\ app_models \in IndexedVersions
    /\ edited = FALSE
    /\ kin = EmptyDict
    /\ kout = "none"
    /\ kops = <<>>
    /\ kerr = ""
    /\ kruns = 0
    /\ edits = 0
    /\ DiffIdle
    /\ MigrateIdle
    /\ ValidateIdle
    /\ UnapplyIdle
    /\ RoundTripIdle
    /\ RecorderIdle

EditIndexedModels == EditModelsAmong(IndexedVersions)

MakeIndexedNext == EditIndexedModels \/ MakeMigrations

SpecMakeIndexed == MakeIndexedInit /\ [][MakeIndexedNext]_vars

\* the names an index of the model may use: its field names, its explicit
\* columns, and <name>_id for its foreign keys
KnownColumns(ms) ==
    UNION {{_lc(fs.name)}
           \cup (IF Truthy(Get(fs.options, "db_column"))
                 THEN {_lc(fs.options["db_column"])} ELSE {})
           \cup (IF fs.field_type \in FK_TYPES
                 THEN {_lc(fs.name) \o "_id"} ELSE {}) :
             fs \in Range(ms.field_states)}

\* the index columns of the snapshot that its model does not have
UnknownIndexColumns(model_states) ==
    UNION {{<<m, col>> : col \in
              {c \in UNION {Range(ix[1]) : ix \in Range(model_states[m].meta.indexes)} :
                 _lc(c) \notin KnownColumns(model_states[m])}} :
           m \in DOMAIN model_states}

InvalidIndexDefinitions == "InvalidMigrationError: invalid index definitions"

\* a run of makemigrations that is not a blank scaffold and that has loaded
\* the migration files
GeneratingRun ==
    /\ kruns' = kruns + 1
    /\ ~kin'.empty
    /\ _detect_conflicts(files) = {}
    /\ load_migration_state(files).err = ""

UnknownColumnRejected ==
    /\ kout = "raised" /\ kerr = InvalidIndexDefinitions
    /\ files = <<>> /\ kruns = 1
    /\ <<"Book", "book_id">> \in UnknownIndexColumns(app_models)

----------------------------------------------------------------------------
(* AlterField: the type validation accepts against the SQL of apply *)

\* the replayed state an AlterField meets: its model, holding the field with
\* the old options
ReplayedBefore(op) ==
    (op.model_name :>
       ModelState(op.model_name, op.db_table,
                  (_lc(op.field_name) :>
                     FieldState(op.field_name, OldType(op),
                                Pop(op.old_options, {"type", "field_type"}))),
                  <<>>))

\* the field mutate_state of the AlterField records in the replayed state
RecordedField(op) ==
    mutate_state(op, ReplayedBefore(op)).models[op.model_name].field_states[
        _lc(IF Truthy(op.new_name) THEN op.new_name ELSE op.field_name)]

\* apply(op) executes the statement that gives the column of op the type of
\* the recorded field
TypeRealised(op, recorded) ==
    \E k \in DOMAIN apply(op).sql :
       apply(op).sql[k] =
          <<"ALTER TABLE ALTER COLUMN TYPE", _lc(op.db_table), op.field_name,
            sql_for_field(recorded.field_type, recorded.options)>>

\* the AlterField changes the type of the column: both sides name a type and
\* the two differ, or both are CharFields of different length
ChangesColumnType(op) ==
    /\ op.kind = "AlterField"
    /\ Truthy(OldType(op)) /\ Truthy(NewType(op))
    /\ \/ OldType(op) # NewType(op)
       \/ /\ OldType(op) = "CharField"
          /\ Get(op.old_options, "max_length") # Get(op.new_options, "max_length")

\* C26: when _validate_safe_alters accepts a batch, every AlterField of the
\* batch that changes the type of its column is realised by apply: among the
\* statements apply executes is the ALTER COLUMN ... TYPE that gives the
\* column the type mutate_state records (BIGINT for IntField to BigIntField,
\* INTEGER for SmallIntField to IntField)
C26_AcceptedTypeChangeRealised ==
    (vpc = "checked" /\ ~RejectedAlter) =>
        \A i \in DOMAIN batch :
           ChangesColumnType(batch[i]) =>
              TypeRealised(batch[i], RecordedField(batch[i]))

\* what holds: an accepted change of the length of a CharField is realised
AcceptedResizeRealised ==
    (vpc = "checked" /\ ~RejectedAlter) =>
        \A i \in DOMAIN batch :
           (ChangesColumnType(batch[i]) /\ OldType(batch[i]) = NewType(batch[i]))
              => TypeRealised(batch[i], RecordedField(batch[i]))

\* what holds: an accepted integer widening is recorded by mutate_state and
\* apply executes no statement for it
AcceptedWideningExecutesNothing ==
    (vpc = "checked" /\ ~RejectedAlter) =>
        \A i \in DOMAIN batch :
           (/\ ChangesColumnType(batch[i])
            /\ <<OldType(batch[i]), NewType(batch[i])>> \in IntegerWidenings
            /\ OtherChanges(batch[i]) = {})
              => /\ RecordedField(batch[i]).field_type = NewType(batch[i])
                 /\ apply(batch[i]) = Executed(<<>>)

\* IntField to BigIntField has been accepted
WideningAccepted ==
    /\ vpc = "checked" /\ ~RejectedAlter /\ Len(batch) = 1
    /\ ChangesColumnType(batch[1])
    /\ <<OldType(batch[1]), NewType(batch[1])>> = <<"IntField", "BigIntField">>

\* a CharField resize has been accepted
ResizeAccepted ==
    /\ vpc = "checked" /\ ~RejectedAlter /\ Len(batch) = 1
    /\ ChangesColumnType(batch[1])
    /\ OldType(batch[1]) = "CharField" /\ NewType(batch[1]) = "CharField"

----------------------------------------------------------------------------
(* migrate.py, base.py, operations.py, schema_editor.py: migrating forward *)
(* to a target and back, on a database that holds tables and indexes       *)

MaxRoundTripOps == 2
MaxTrips == 3

\* what a statement does: the error the database answers with ("" when none)
\* and the database it leaves
Done(db) == [err |-> "", db |-> db]
Refused(db) == [err |-> "PostgresError", db |-> db]

\* the columns of a CREATE TABLE, by name
ColumnsOf(defs) ==
    [c \in {defs[i].name : i \in DOMAIN defs} |->
       defs[CHOOSE i \in DOMAIN defs : defs[i].name = c]]

\* the indexes left when those of the set gone are dropped
WithoutIndexes(indexes, gone) == [n \in (DOMAIN indexes) \ gone |-> indexes[n]]

\* ALTER TABLE ... on a column that exists
OnColumn(db, table, column, changed(_)) ==
    IF table \notin DOMAIN db.tables THEN Refused(db)
    ELSE IF column \notin DOMAIN db.tables[table] THEN Refused(db)
    ELSE Done([db EXCEPT !.tables[table][column] = changed(@)])

\* SchemaEditor._execute(conn, sql): PostgreSQL executing one statement
Exec(db, stmt) ==
    CASE stmt[1] = "CREATE TABLE" ->
           IF stmt[2] \in DOMAIN db.tables THEN Refused(db)
           ELSE Done([db EXCEPT !.tables = Put(@, stmt[2], ColumnsOf(stmt[3]))])
      [] stmt[1] = "DROP TABLE IF EXISTS" ->
           Done([tables |-> Pop(db.tables, {stmt[2]}),
                 indexes |-> WithoutIndexes(
                     db.indexes,
                     {n \in DOMAIN db.indexes : db.indexes[n].table = stmt[2]})])
      [] stmt[1] = "ALTER TABLE RENAME TO" ->
           IF stmt[2] \notin DOMAIN db.tables \/ stmt[3] \in DOMAIN db.tables
           THEN Refused(db)
           ELSE Done([tables |->
                        [t \in ((DOMAIN db.tables) \ {stmt[2]}) \cup {stmt[3]} |->
                           LET cols == IF t = stmt[3] THEN db.tables[stmt[2]]
                                       ELSE db.tables[t]
                           IN [c \in DOMAIN cols |->
                                 IF cols[c].references # <<>>
                                    /\ cols[c].references[1] = stmt[2]
                                 THEN [cols[c] EXCEPT !.references[1] = stmt[3]]
                                 ELSE cols[c]]],
                      indexes |->
                        [n \in DOMAIN db.indexes |->
                           IF db.indexes[n].table = stmt[2]
                           THEN [db.indexes[n] EXCEPT !.table = stmt[3]]
                           ELSE db.indexes[n]]])
      [] stmt[1] = "ALTER TABLE ADD COLUMN" ->
           IF stmt[2] \notin DOMAIN db.tables THEN Refused(db)
           ELSE IF stmt[3].name \in DOMAIN db.tables[stmt[2]] THEN Refused(db)
           ELSE IF stmt[3].references # <<>>
                   /\ stmt[3].references[1] \notin DOMAIN db.tables
           THEN Refused(db)
           ELSE Done([db EXCEPT !.tables[stmt[2]] = Put(@, stmt[3].name, stmt[3])])
      [] stmt[1] = "ALTER TABLE DROP COLUMN IF EXISTS" ->
           IF stmt[2] \notin DOMAIN db.tables THEN Refused(db)
           ELSE Done([tables |-> [db.tables EXCEPT ![stmt[2]] = Pop(@, {stmt[3]})],
                      indexes |-> WithoutIndexes(
                          db.indexes,
                          {n \in DOMAIN db.indexes :
                             /\ db.indexes[n].table = stmt[2]
                             /\ stmt[3] \in Range(db.indexes[n].columns)})])
      [] stmt[1] = "ALTER TABLE ALTER COLUMN TYPE" ->
           OnColumn(db, stmt[2], stmt[3], LAMBDA col : [col EXCEPT !.type = stmt[4]])
      [] stmt[1] = "ALTER TABLE ALTER COLUMN DROP NOT NULL" ->
           OnColumn(db, stmt[2], stmt[3], LAMBDA col : [col EXCEPT !.not_null = FALSE])
      [] stmt[1] = "ALTER TABLE ALTER COLUMN SET NOT NULL" ->
           OnColumn(db, stmt[2], stmt[3], LAMBDA col : [col EXCEPT !.not_null = TRUE])
      [] stmt[1] = "ALTER TABLE ALTER COLUMN SET DEFAULT" ->
           OnColumn(db, stmt[2], stmt[3], LAMBDA col : [col EXCEPT !.default = stmt[4]])
      [] stmt[1] = "ALTER TABLE ALTER COLUMN DROP DEFAULT" ->
           OnColumn(db, stmt[2], stmt[3], LAMBDA col : [col EXCEPT !.default = None])
      [] stmt[1] = "ALTER TABLE RENAME COLUMN" ->
           IF stmt[2] \notin DOMAIN db.tables THEN Refused(db)
           ELSE IF stmt[3] \notin DOMAIN db.tables[stmt[2]]
                   \/ stmt[4] \in DOMAIN db.tables[stmt[2]]
           THEN Refused(db)
           ELSE Done([tables |->
                        [db.tables EXCEPT ![stmt[2]] =
                           Put(Pop(@, {stmt[3]}), stmt[4],
                               [@[stmt[3]] EXCEPT !.name = stmt[4]])],
                      indexes |->
                        [n \in DOMAIN db.indexes |->
                           IF db.indexes[n].table = stmt[2]
                           THEN [db.indexes[n] EXCEPT !.columns =
                                   [i \in DOMAIN @ |->
                                      IF @[i] = stmt[3] THEN stmt[4] ELSE @[i]]]
                           ELSE db.indexes[n]]])
      [] stmt[1] \in {"CREATE INDEX", "CREATE UNIQUE INDEX"} ->
           IF stmt[3] \notin DOMAIN db.tables \/ stmt[2] \in DOMAIN db.indexes
           THEN Refused(db)
           ELSE IF ~(Range(stmt[4]) \subseteq DOMAIN db.tables[stmt[3]])
           THEN Refused(db)
           ELSE Done([db EXCEPT !.indexes =
                        Put(@, stmt[2],
                            [table |-> stmt[3], columns |-> stmt[4],
                             unique |-> stmt[1] = "CREATE UNIQUE INDEX"])])
      [] stmt[1] = "DROP INDEX IF EXISTS" ->
           Done([db EXCEPT !.indexes = WithoutIndexes(@, {stmt[2]})])

\* the statements of one call, executed one by one up to the first error
RECURSIVE ExecAll(_, _)
ExecAll(db, statements) ==
    IF statements = <<>> THEN Done(db)
    ELSE LET first == Exec(db, Head(statements))
         IN IF first.err # "" THEN first ELSE ExecAll(first.db, Tail(statements))

\* "for op in operations: await op.apply(conn, schema_editor)": calls holds
\* what the call on each operation does, in the order of the loop
RECURSIVE RunOperations(_, _)
RunOperations(db, calls) ==
    IF calls = <<>> THEN Done(db)
    ELSE LET Called(called, executed) ==
                 IF called.err # "" THEN [err |-> called.err, db |-> db]
                 ELSE IF executed.err # "" THEN executed
                 ELSE RunOperations(executed.db, Tail(calls))
         IN Called(Head(calls), ExecAll(db, Head(calls).sql))

\* BaseMigration.apply and BaseMigration.unapply on the connection
Migration_apply(db, operations) ==
    RunOperations(db, [i \in DOMAIN operations |-> apply(operations[i])])
Migration_unapply(db, operations) ==
    RunOperations(db, [i \in DOMAIN operations |->
                         unapply(Reversed(operations)[i])])

\* the first migration of the sample project
InitialOperations ==
    << CreateModel("Author", "author",
                   <<<<"id", "IntField", [primary_key |-> PyTrue]>>>>),
       CreateModel("Book", "book",
                   << <<"id", "IntField", [primary_key |-> PyTrue]>>,
                      <<"title", "CharField",
                        [max_length |-> "100", index |-> PyTrue]>>,
                      <<"age", "IntField", [null |-> PyTrue]>> >>) >>

\* the foreign key Book.author, as the extractor describes it
author_key ==
    [null |-> PyTrue, db_column |-> "author_id", related_table |-> "author",
     related_model |-> "models.Author", to_field |-> "id",
     on_delete |-> "CASCADE", referenced_type |-> "IntField"]

\* the operations with an unapply the later migrations are made of
RoundTripOperations ==
    { AddField("Book", "book", "ttl", "IntField", [null |-> PyTrue]),
      AddField("Book", "book", "name", "CharField",
               [max_length |-> "20", index |-> PyTrue, null |-> PyTrue]),
      AddField("Book", "book", "author", "ForeignKeyFieldInstance", author_key),
      CreateModel("Writer", "writer",
                  << <<"id", "IntField", [primary_key |-> PyTrue]>>,
                     <<"name", "CharField", [index |-> PyTrue]>> >>),
      RenameModel("Author", "Writer", "author", "writer"),
      AlterField("Book", "book", "age", [null |-> PyTrue], [null |-> PyFalse], None),
      AlterField("Book", "book", "title",
                 [type |-> "CharField", max_length |-> "100"],
                 [type |-> "CharField", max_length |-> "200"], None),
      AlterField("Book", "book", "age", [type |-> "IntField"],
                 [type |-> "BigIntField"], None),
      AlterField("Book", "book", "title", [index |-> PyTrue],
                 [index |-> PyFalse], None),
      AlterField("Book", "book", "age", [default |-> None],
                 [default |-> "7"], None),
      AlterField("Book", "book", "title", [index |-> PyTrue],
                 [index |-> PyTrue], "name"),
      CreateIndex("Book", "book", <<"age">>, FALSE),
      RemoveIndex("Book", "book", default_index_name("book", <<"title">>, FALSE),
                  <<"title">>, FALSE),
      RenameField("Book", "book", "title", "name", None, None) }

\* the operations the last migration is made of
LastOperations ==
    { AddField("Book", "book", "ttl", "IntField", [null |-> PyTrue]),
      RenameModel("Author", "Writer", "author", "writer"),
      CreateIndex("Book", "book", <<"age">>, FALSE) }

\* a fresh database and a directory of three migrations
RoundTripInit ==
    /\ \E second \in UNION {[1 .. n -> RoundTripOperations] :
                              n \in 1 .. MaxRoundTripOps},
          third \in [1 .. 1 -> LastOperations] :
         rfiles = (Stems[1] :> InitialOperations) @@ (Stems[2] :> second)
                  @@ (Stems[3] :> third)
    /\ rdb = EmptyDatabase
    /\ rreg = {}
    /\ rpc = "idle"
    /\ rroute = NoRoute
    /\ rhist = <<>>
    /\ MigrateIdle
    /\ DiffIdle
    /\ MakeIdle
    /\ ValidateIdle
    /\ UnapplyIdle
    /\ RecorderIdle

\* what a run that returned leaves in the history
Returned(route, db, reg) ==
    [target |-> route.target, direction |-> route.direction,
     names |-> route.names, db |-> db, reg |-> reg]

\* migrate(target=t) up to the loop over the route: list_applied,
\* iter_migration_files, resolve_target_name and plan_route
RoundTripStart ==
    /\ rpc = "idle"
    /\ Len(rhist) < MaxTrips
    /\ \E target \in {"0001", "0002", "0003"} :
         LET all_names == iter_migration_files(DOMAIN rfiles)
             resolved == resolve_target_name(target, all_names)
             Routed(route) ==
                 IF route.direction = "noop"
                 THEN /\ rhist' = Append(rhist,
                                         Returned([target |-> resolved.name,
                                                   direction |-> "noop",
                                                   names |-> <<>>], rdb, rreg))
                      /\ UNCHANGED <<rpc, rroute>>
                 ELSE /\ rpc' = "running"
                      /\ rroute' = [target |-> resolved.name,
                                    direction |-> route.direction,
                                    names |-> route.names]
                      /\ UNCHANGED rhist
         IN Routed(plan_route(rreg, all_names, resolved.name))
    /\ UNCHANGED <<rfiles, rdb, rreg>>
    /\ UNCHANGED <<diffVars, migVars, makeVars, valVars, unVars, recVars>>

\* the migrations of the route the loop has not reached yet
Remaining == SubSeq(rroute.names, Cardinality(
                 {i \in DOMAIN rroute.names :
                    (rroute.names[i] \in rreg) = (rroute.direction = "forward")}) + 1,
                 Len(rroute.names))

\* one iteration of the loop: the migration in its transaction, recorded or
\* unrecorded when every operation went through, rolled back otherwise
Transaction(name, result, recorded) ==
    IF result.err # ""
    THEN /\ rpc' = "failed"
         /\ UNCHANGED <<rdb, rreg>>
    ELSE /\ rdb' = result.db
         /\ rreg' = recorded
         /\ UNCHANGED rpc

\* the forward loop: Migration.apply and record_applied
RoundTripForward ==
    /\ rpc = "running" /\ rroute.direction = "forward"
    /\ Remaining # <<>>
    /\ Transaction(Head(Remaining),
                   Migration_apply(rdb, rfiles[Head(Remaining)]),
                   rreg \cup {Head(Remaining)})
    /\ UNCHANGED <<rfiles, rroute, rhist>>
    /\ UNCHANGED <<diffVars, migVars, makeVars, valVars, unVars, recVars>>

\* the backward loop: Migration.unapply and unrecord_applied
RoundTripBackward ==
    /\ rpc = "running" /\ rroute.direction = "backward"
    /\ Remaining # <<>>
    /\ Transaction(Head(Remaining),
                   Migration_unapply(rdb, rfiles[Head(Remaining)]),
                   rreg \ {Head(Remaining)})
    /\ UNCHANGED <<rfiles, rroute, rhist>>
    /\ UNCHANGED <<diffVars, migVars, makeVars, valVars, unVars, recVars>>

\* the loop is over and migrate returns
RoundTripReturn ==
    /\ rpc = "running"
    /\ Remaining = <<>>
    /\ rpc' = "idle"
    /\ rhist' = Append(rhist, Returned(rroute, rdb, rreg))
    /\ UNCHANGED <<rfiles, rdb, rreg, rroute>>
    /\ UNCHANGED <<diffVars, migVars, makeVars, valVars, unVars, recVars>>

RoundTripNext ==
    RoundTripStart \/ RoundTripForward \/ RoundTripBackward \/ RoundTripReturn

SpecRoundTrip == RoundTripInit /\ [][RoundTripNext]_vars

----------------------------------------------------------------------------
(* Properties of the round trip *)

\* the runs i, i + 1 and i + 2 of the history are: a run that ended at a
\* target, a run forward from it, and a run back to it
RoundTripAt(i) ==
    /\ i + 2 \in DOMAIN rhist
    /\ rhist[i + 1].direction = "forward"
    /\ rhist[i + 2].direction = "backward"
    /\ rhist[i + 2].target = rhist[i].target

\* C23: when migrate has gone forward from an earlier target to a later one
\* and then back to the earlier target, through migrations made of
\* reversible operations only, the tables and indexes of the database and the
\* recorded names are what they were at the earlier target
C23_RoundTripRestores ==
    \A i \in DOMAIN rhist :
       RoundTripAt(i) =>
          /\ rhist[i + 2].db = rhist[i].db
          /\ rhist[i + 2].reg = rhist[i].reg

\* the operation creates its column under a name other than the field's
ColumnOverride(op) ==
    /\ op.kind = "AddField"
    /\ Truthy(Get(op.options, "db_column"))
    /\ Get(op.options, "db_column") # op.field_name

\* what holds: the recorded names are restored
RoundTripRestoresRegistry ==
    \A i \in DOMAIN rhist : RoundTripAt(i) => rhist[i + 2].reg = rhist[i].reg

\* what holds: the database is restored when no migration of the way back
\* adds a field whose column has another name
RoundTripRestoresPlainColumns ==
    \A i \in DOMAIN rhist :
       (/\ RoundTripAt(i)
        /\ \A k \in DOMAIN rhist[i + 2].names :
              \A j \in DOMAIN rfiles[rhist[i + 2].names[k]] :
                 ~ColumnOverride(rfiles[rhist[i + 2].names[k]][j]))
          => rhist[i + 2].db = rhist[i].db

\* a round trip over an AlterField and an AddField has restored the database
RoundTripRestored ==
    /\ RoundTripAt(1)
    /\ rhist[3].db = rhist[1].db
    /\ rhist[1].db # rhist[2].db
    /\ \E j \in DOMAIN rfiles[Stems[2]] : rfiles[Stems[2]][j].kind = "AlterField"
    /\ Stems[2] \in Range(rhist[3].names)

\* a round trip over the AddField of the foreign key has left its column
ColumnLeftBehind ==
    /\ RoundTripAt(1)
    /\ rhist[1].target = Stems[1]
    /\ "author_id" \in DOMAIN rhist[3].db.tables["book"]
    /\ "author_id" \notin DOMAIN rhist[1].db.tables["book"]

\* a migration holding a RenameField has stopped the run forward
RenameFieldStopsForward ==
    /\ rpc = "failed" /\ rroute.direction = "forward"
    /\ \E j \in DOMAIN rfiles[Stems[2]] : rfiles[Stems[2]][j].kind = "RenameField"

----------------------------------------------------------------------------
(* makemigrations on a model whose removed fields share a candidate *)

f_ttl == FieldState("ttl", "CharField", [max_length |-> "200"])
f_writer_name == FieldState("writer", "CharField", [max_length |-> "200"])

\* the versions of a Book: two CharFields, replaced by two others or by one
RenamedVersions ==
    {[n \in {"Book"} |-> ModelState("Book", "book", Fields(S), <<>>)] :
       S \in { {f_id, f_title, f_ttl}, {f_id, f_name, f_writer_name},
               {f_id, f_writer_name} }}

\* what is typed at the two prompts of one removed field: yes, no, nothing,
\* Ctrl-C, and at the menu a number, a letter or Ctrl-C
ChooseKeys == {"y", "n", "", KeyboardInterrupt}
ChooseMenuKeys == Menu \cup {"x", KeyboardInterrupt}

\* the two states, what will be typed at the prompts and the order in which
\* the field dicts are iterated
ChooseInit ==
    /\ from_state \in RenamedVersions
    /\ to_state \in RenamedVersions
    /\ kin \in [answers : [Questions(from_state, to_state) ->
                             Answer(ChooseKeys, ChooseMenuKeys)],
                field_order : Permutations_(ChangedFields(from_state, to_state))]
    /\ rename_map = EmptyDict
    /\ dpc = "asking"
    /\ ops = <<>>
    /\ derr = ""
    /\ cur = EmptyProjectState
    /\ pos = 0
    /\ ferr = ""
    /\ files = <<>>
    /\ app_models = EmptyProjectState
    /\ edited = FALSE
    /\ kout = "none"
    /\ kops = <<>>
    /\ kerr = ""
    /\ kruns = 0
    /\ edits = 0
    /\ MigrateIdle
    /\ ValidateIdle
    /\ UnapplyIdle
    /\ RoundTripIdle
    /\ RecorderIdle

\* _choose_renames_interactive(from_state, to_state)
ChooseRenames ==
    /\ dpc = "asking"
    /\ dpc' = "asked"
    /\ rename_map' = _choose_renames_interactive(from_state, to_state,
                                                 kin.answers, kin.field_order)
    /\ UNCHANGED <<from_state, to_state, ops, derr, cur, pos, ferr>>
    /\ UNCHANGED <<migVars, makeVars, valVars, unVars, rtVars, recVars>>

ChooseNext == ChooseRenames

SpecChoose == ChooseInit /\ [][ChooseNext]_vars

\* no new name is the target of two removed fields of the model
NoReuse(renames) ==
    \A i, j \in DOMAIN renames : renames[i][2] = renames[j][2] => i = j

\* C31: whatever is typed at "Accept this rename?" and at "Enter number", in
\* the rename map _choose_renames_interactive returns no new field name is,
\* within one model, the target of more than one removed field
C31_NoCandidateReuse ==
    dpc = "asked" => \A m \in DOMAIN rename_map : NoReuse(rename_map[m])

\* the best candidate of title was declined for the second of the menu, and
\* ttl was renamed to the candidate the two fields share
C31_Witness ==
    /\ dpc = "asked"
    /\ <<"Book", "ttl">> \in DOMAIN kin.answers
    /\ kin.answers[<<"Book", "title">>] = [accept |-> "n", choice |-> "2"]
    /\ kin.answers[<<"Book", "ttl">>].accept = "y"
    /\ rename_map["Book"] = << <<"title", "name">>, <<"ttl", "writer">> >>

\* both fields were answered by yes and only the first took the candidate
SharedCandidateTakenOnce ==
    /\ dpc = "asked"
    /\ <<"Book", "ttl">> \in DOMAIN kin.answers
    /\ kin.answers[<<"Book", "title">>].accept = "y"
    /\ kin.answers[<<"Book", "ttl">>].accept = "y"
    /\ rename_map["Book"] = << <<"title", "writer">> >>

(* makemigrations in a directory that already holds numbered files *)

\* a file with no operation, as --empty writes it
DataMigration(number) == [number |-> number, operations |-> <<>>]

\* the numbers of the files the directory starts with
ExistingNumbers == {1, 2, MaxFourDigits - 1, MaxFourDigits}

\* the directories: up to two files, two of which may carry one number
NumberedDirectories ==
    {<<>>}
    \cup {<<DataMigration(n)>> : n \in ExistingNumbers}
    \cup {<<DataMigration(pair[1]), DataMigration(pair[2])>> :
            pair \in {p \in ExistingNumbers \X ExistingNumbers : p[1] <= p[2]}}

NumberedVersions ==
    {EmptyProjectState,
     Project({ModelState("Author", "author", Fields({f_id, f_name}), <<>>)}),
     Project({ModelState("Author", "author", Fields({f_id, f_name, f_age_null}), <<>>)})}

MakeNumberedInit ==
    /\ files \in NumberedDirectories
    /\ app_models \in NumberedVersions
    /\ edited = FALSE
    /\ kin = EmptyDict
    /\ kout = "none"
    /\ kops = <<>>
    /\ kerr = ""
    /\ kruns = 0
    /\ edits = 0
    /\ DiffIdle
    /\ MigrateIdle
    /\ ValidateIdle
    /\ UnapplyIdle
    /\ RoundTripIdle
    /\ RecorderIdle

EditNumberedModels == EditModelsAmong(NumberedVersions)

MakeNumberedNext == EditNumberedModels \/ MakeMigrations

SpecMakeNumbered == MakeNumberedInit /\ [][MakeNumberedNext]_vars

\* the highest number of the directory, 0 when it is empty
Highest(migration_files) ==
    IF migration_files = <<>> THEN 0
    ELSE CHOOSE n \in {migration_files[i].number : i \in DOMAIN migration_files} :
           \A i \in DOMAIN migration_files : migration_files[i].number <= n

\* two files of the directory carry one number
Collides(migration_files) ==
    \E i, j \in DOMAIN migration_files :
       i # j /\ migration_files[i].number = migration_files[j].number

\* the run has refused the directory before diffing and writing
RefusedConflict ==
    /\ kout' = "raised"
    /\ kerr' = "InvalidMigrationError: conflicting numbers"
    /\ kops' = <<>>
    /\ files' = files

\* the file the run has written is numbered highest + 1
WrittenNext ==
    /\ Len(files') = Len(files) + 1
    /\ SubSeq(files', 1, Len(files)) = files
    /\ files'[Len(files')].number = Highest(files) + 1
    /\ \A i \in DOMAIN files : files[i].number # files'[Len(files')].number

\* C32: every file makemigrations writes carries a four-digit zero-padded
\* number, the highest existing number plus one (1 in an empty directory),
\* and a directory where two files share a number makes the run raise
\* InvalidMigrationError with nothing diffed and nothing written
C32_NumbersNeverCollide ==
    [][kruns' = kruns + 1 =>
         /\ Collides(files) => RefusedConflict
         /\ files' # files =>
              /\ WrittenNext
              /\ Len(NumberText(files'[Len(files')].number)) = 4]_vars

\* as long as the highest number is below 9999 the written file is numbered
\* highest + 1 on four digits, and a shared number is refused
NumbersBelowLimitNeverCollide ==
    [][kruns' = kruns + 1 /\ Highest(files) < MaxFourDigits =>
         /\ Collides(files) => RefusedConflict
         /\ files' # files =>
              /\ WrittenNext
              /\ Len(NumberText(files'[Len(files')].number)) = 4
              /\ MatchesMigrationName(files'[Len(files')])]_vars

\* whatever the directory holds, the written file is numbered highest + 1 and
\* a shared four-digit number is refused
WrittenNumberIsFresh ==
    [][kruns' = kruns + 1 =>
         /\ Collides(files) => RefusedConflict
         /\ files' # files => WrittenNext]_vars

\* a file whose name does not match stops every later run
FifthDigitStopsRuns ==
    [][kruns' = kruns + 1 /\ (\E i \in DOMAIN files : ~MatchesMigrationName(files[i]))
         => kout' = "raised" /\ files' = files]_vars

\* a first file numbered 1 has been written in an empty directory
FirstNumbered ==
    /\ kruns = 1
    /\ kout \in {"written", "scaffold"}
    /\ Len(files) = 1
    /\ files[1].number = 1

\* a run has refused a directory where two files are numbered 2
SharedNumberRefused ==
    /\ kruns >= 1
    /\ kout = "raised"
    /\ kerr = "InvalidMigrationError: conflicting numbers"
    /\ files = <<DataMigration(2), DataMigration(2)>>

\* a run has written the file after number 9999: its number has five digits
FiveDigitsWritten ==
    /\ kout \in {"written", "scaffold"}
    /\ files # <<>>
    /\ files[Len(files)].number = MaxFourDigits + 1
    /\ NumberText(files[Len(files)].number) = <<"1", "0", "0", "0", "0">>

\* the run after it has raised on the name it cannot parse
StoppedAfterFiveDigits ==
    /\ kout = "raised"
    /\ kerr = NonConforming
    /\ files # <<>>
    /\ files[Len(files)].number = MaxFourDigits + 1

(* resolve_target_name on the names of a directory *)

\* the stems a directory may hold: two of them extend a third
ResolveNames == {Stems[1], ShortStem, Stems[2], TwinStem, Stems[3]}

\* what is passed as target: a number, a shorter prefix, or a complete name
ResolveTargets == TargetPrefixes \cup ResolveNames

ResolveInit ==
    /\ registry = {}
    /\ db_schema = {}
    /\ tx = NoTx
    /\ mpc = "idle"
    /\ margs \in {[sql |-> FALSE, fake |-> FALSE, target |-> t, location |-> d] :
                    t \in ResolveTargets, d \in SUBSET ResolveNames}
    /\ applied = {}
    /\ direction = "noop"
    /\ names = <<>>
    /\ opi = 0
    /\ mlog = <<>>
    /\ sql_accum = <<>>
    /\ invoked = <<>>
    /\ merr = ""
    /\ runs = 0
    /\ DiffIdle
    /\ MakeIdle
    /\ ValidateIdle
    /\ UnapplyIdle
    /\ RoundTripIdle
    /\ RecorderIdle

\* target_name = resolve_target_name(target, all_names) on the listing of
\* the directory; names keeps the name returned
ResolveTarget ==
    /\ mpc = "idle"
    /\ \E all_names \in Listings(margs.location) :
         LET resolved == resolve_target_name(margs.target, all_names)
         IN /\ merr' = resolved.err
            /\ mpc' = IF resolved.err = "" THEN "done" ELSE "failed"
            /\ names' = IF resolved.err = "" THEN <<resolved.name>> ELSE <<>>
    /\ UNCHANGED <<registry, db_schema, tx, margs, applied, direction, opi, mlog,
                   sql_accum, invoked, runs>>
    /\ UNCHANGED <<diffVars, makeVars, valVars, unVars, rtVars, recVars>>

ResolveNext == ResolveTarget

SpecResolve == ResolveInit /\ [][ResolveNext]_vars

\* the names of the directory that start with the target
Matching == {n \in margs.location : StartsWith(n, margs.target)}

\* the call has returned the name
Resolved(name) == mpc = "done" /\ merr = "" /\ names = <<name>>

\* the call has raised InvalidMigrationError
ResolveRaised ==
    /\ mpc = "failed"
    /\ merr \in {"InvalidMigrationError: unknown", "InvalidMigrationError: ambiguous"}
    /\ names = <<>>

\* C33: a target equal to a complete migration name is returned as it is, a
\* target that exactly one name starts with gives that name, and a target
\* that no name or several names start with raises InvalidMigrationError
C33_TargetResolution ==
    mpc # "idle" =>
       /\ margs.target \in margs.location => Resolved(margs.target)
       /\ Cardinality(Matching) = 1 => \E n \in Matching : Resolved(n)
       /\ Cardinality(Matching) # 1 => ResolveRaised

\* the single name the target starts is returned; no match raises "unknown"
\* and several matches raise "ambiguous"
UniqueMatchResolved ==
    mpc # "idle" =>
       /\ Cardinality(Matching) = 1 => \E n \in Matching : Resolved(n)
       /\ Cardinality(Matching) = 0 =>
             ResolveRaised /\ merr = "InvalidMigrationError: unknown"
       /\ Cardinality(Matching) > 1 =>
             ResolveRaised /\ merr = "InvalidMigrationError: ambiguous"

\* a complete name is returned as it is when no other name extends it
FullNameResolvedUnlessExtended ==
    mpc # "idle" /\ margs.target \in margs.location =>
       IF Matching = {margs.target} THEN Resolved(margs.target) ELSE ResolveRaised

\* a complete name has been returned as it is
FullNameResolved ==
    /\ margs.target = Stems[3]
    /\ margs.location = {Stems[1], Stems[2], Stems[3]}
    /\ Resolved(Stems[3])

\* a unique prefix has been resolved
PrefixResolved ==
    /\ margs.target = "0003"
    /\ Stems[3] \in margs.location
    /\ Resolved(Stems[3])

\* a complete name that another name extends has been refused as ambiguous
FullNameRefused ==
    /\ margs.target = ShortStem
    /\ margs.location = {Stems[1], ShortStem, TwinStem}
    /\ mpc = "failed"
    /\ merr = "InvalidMigrationError: ambiguous"

(* diff_states on models that declare reverse relations and many-to-many *)

m_books == FieldState("books", "ManyToManyFieldInstance", EmptyDict)
r_parent == FieldState("parent", "BackwardOneToOneRelation", [null |-> PyTrue])

\* the fields of the model: a reverse relation or a placeholder comes and
\* goes, alone, beside a column, or under the name of a column
RelationFieldSets ==
    { {f_id, f_name}, {f_id, f_name, f_books}, {f_id, f_name, m_books},
      {f_id, f_name, r_parent}, {f_id, f_name, f_parent},
      {f_id, f_name, f_books, r_parent}, {f_id, f_name, f_age_null},
      {f_id, f_name, f_age_null, f_books}, {f_id, f_title, m_books} }

\* no model, or one model under either of two names
RelationStates ==
    {EmptyProjectState}
    \cup {[n \in {"Author"} |-> ModelState("Author", "author", Fields(S), <<>>)] :
            S \in RelationFieldSets}
    \cup {[n \in {"Writer"} |-> ModelState("Writer", "writer", Fields(S), <<>>)] :
            S \in {{f_id, f_name}, {f_id, f_name, f_books}}}

\* confirmed renames that name a reverse relation or a placeholder
RelationRenames ==
    { <<>>, <<<<"books", "age">>>>, <<<<"age", "books">>>>,
      <<<<"books", "parent">>>>, <<<<"name", "title">>, <<"parent", "books">>>> }

DiffRelationsInit ==
    /\ from_state \in RelationStates
    /\ to_state \in RelationStates
    /\ \E r \in RelationRenames : rename_map = [n \in {"Author", "Writer"} |-> r]
    /\ dpc = "init"
    /\ ops = <<>>
    /\ derr = ""
    /\ cur = from_state
    /\ pos = 0
    /\ ferr = ""
    /\ MigrateIdle
    /\ MakeIdle
    /\ ValidateIdle
    /\ UnapplyIdle
    /\ RoundTripIdle
    /\ RecorderIdle

SpecDiffRelations == DiffRelationsInit /\ [][DiffNext]_vars

\* the field keys of the state whose type is a reverse relation or a
\* many-to-many placeholder
PlaceholderKeys(models) ==
    UNION {{k \in DOMAIN models[m].field_states :
              models[m].field_states[k].field_type \in NON_SCHEMA_FIELD_TYPES} :
           m \in DOMAIN models}

\* the state without those fields
WithoutPlaceholders(models) ==
    [m \in DOMAIN models |->
       [models[m] EXCEPT !.field_states =
          [k \in {x \in DOMAIN models[m].field_states :
                     models[m].field_states[x].field_type
                        \notin NON_SCHEMA_FIELD_TYPES} |->
             models[m].field_states[k]]]]

\* the operation names no reverse relation and no placeholder: a column of
\* CreateModel and an added field are fields of to_state, a removed field is
\* a field of from_state, an altered or renamed one a field of both
NamesNoPlaceholder(op) ==
    CASE op.kind = "CreateModel" ->
           \A j \in DOMAIN op.fields :
              /\ op.fields[j][2] \notin NON_SCHEMA_FIELD_TYPES
              /\ _lc(op.fields[j][1]) \notin PlaceholderKeys(to_state)
      [] op.kind = "AddField" ->
           /\ op.field_type \notin NON_SCHEMA_FIELD_TYPES
           /\ _lc(op.field_name) \notin PlaceholderKeys(to_state)
      [] op.kind = "RemoveField" ->
           _lc(op.field_name) \notin PlaceholderKeys(from_state)
      [] op.kind = "AlterField" ->
           /\ _lc(op.field_name) \notin PlaceholderKeys(from_state)
           /\ _lc(IF op.new_name = None THEN op.field_name ELSE op.new_name)
                 \notin PlaceholderKeys(to_state)
      [] op.kind = "RenameField" ->
           /\ _lc(op.old_name) \notin PlaceholderKeys(from_state)
           /\ _lc(op.new_name) \notin PlaceholderKeys(to_state)
      [] OTHER -> TRUE

\* C34: reverse relations and many-to-many placeholders take no part in the
\* diff: two states that differ only in such fields give no operation, and
\* no column of CreateModel, no AddField, RemoveField, AlterField or
\* RenameField names such a field
C34_PlaceholdersNotDiffed ==
    dpc = "diffed" =>
       /\ WithoutPlaceholders(from_state) = WithoutPlaceholders(to_state)
             => ops = <<>>
       /\ \A i \in DOMAIN ops : NamesNoPlaceholder(ops[i])

\* two states that differ only in a reverse relation and a placeholder, with
\* a confirmed rename that names them, were diffed
C34_Witness ==
    /\ dpc = "diffed"
    /\ DOMAIN from_state = {"Author"}
    /\ from_state["Author"].field_states = Fields({f_id, f_name, f_books, r_parent})
    /\ to_state = [n \in {"Author"} |->
                     ModelState("Author", "author", Fields({f_id, f_name}), <<>>)]
    /\ rename_map["Author"] = <<<<"books", "parent">>>>
    /\ ops = <<>>

\* a model that declares a placeholder was created with its columns only
CreatedWithoutPlaceholder ==
    /\ dpc = "diffed"
    /\ from_state = EmptyProjectState
    /\ DOMAIN to_state = {"Author"}
    /\ to_state["Author"].field_states = Fields({f_id, f_title, m_books})
    /\ Len(ops) = 1
    /\ ops[1].kind = "CreateModel"
    /\ Len(ops[1].fields) = 2

\* a column was added while a reverse relation went away and a rename of the
\* relation to the column was confirmed: the rename is not emitted
RelationRenameIgnored ==
    /\ dpc = "diffed"
    /\ DOMAIN from_state = {"Author"} /\ DOMAIN to_state = {"Author"}
    /\ from_state["Author"].field_states = Fields({f_id, f_name, f_books})
    /\ to_state["Author"].field_states = Fields({f_id, f_name, f_age_null})
    /\ rename_map["Author"] = <<<<"books", "age">>>>
    /\ Len(ops) = 1
    /\ ops[1].kind = "AddField"

(* the fold of the emitted operations never raises *)

\* C35: folding mutate_state over the whole output of diff_states(A, B) from
\* A never raises: every operation finds its model, field or index in the
\* state it is folded on, the operations of a model renamed in the same diff
\* included
C35_FoldNeverRaises == dpc = "diffed" => ferr = ""

\* the fold raises at one place only: a RemoveIndex that names, by its old
\* name, a model the same list has renamed
FoldRaisesOnlyAtRemoveIndexOfRenamed ==
    (dpc = "diffed" /\ ferr # "") =>
       /\ ferr = "KeyError"
       /\ ops[pos + 1].kind = "RemoveIndex"
       /\ \E i \in 1 .. pos : /\ ops[i].kind = "RenameModel"
                              /\ ops[i].old_name = ops[pos + 1].model_name

\* the fold never raises on a list that renames no model
FoldWithoutModelRenameNeverRaises ==
    (dpc = "diffed" /\ OpsOfKind("RenameModel") = {}) => ferr = ""

\* a field operation of a renamed model has been folded under the new name
RenamedModelFieldFolded ==
    /\ dpc = "diffed" /\ ferr = "" /\ pos >= 2
    /\ ops[1].kind = "RenameModel"
    /\ ops[pos].kind \in {"AddField", "RemoveField", "AlterField"}
    /\ ops[pos].model_name = ops[1].new_name

\* the fold has raised KeyError at the RemoveIndex of a renamed model
RemoveIndexOfRenamedRaised ==
    /\ dpc = "diffed" /\ ferr = "KeyError" /\ pos = 1
    /\ ops[1].kind = "RenameModel"
    /\ ops[2].kind = "RemoveIndex"
    /\ ops[2].model_name = ops[1].old_name

(* referential integrity along the fold *)

\* every foreign key of the state references the table of a model of the state
Closed(models) ==
    \A m \in DOMAIN models : \A k \in DOMAIN models[m].field_states :
        LET fs == models[m].field_states[k]
        IN (fs.field_type \in FK_TYPES /\ Truthy(fs.options["related_table"]))
              => \E t \in DOMAIN models :
                    _lc(models[t].db_table) = _lc(fs.options["related_table"])

\* C36: when the foreign keys of A and those of B reference tables of their
\* own state, the state after any prefix of diff_states(A, B) folded over A
\* has no foreign key to a missing table: no RemoveModel comes before the
\* RemoveField or AlterField that detaches a surviving foreign key
C36_ReferentialIntegrity ==
    (dpc = "diffed" /\ Closed(from_state) /\ Closed(to_state)) => Closed(cur)

\* on a list that removes no model the integrity holds after every prefix
IntegrityWithoutRemoveModel ==
    (/\ dpc = "diffed" /\ Closed(from_state) /\ Closed(to_state)
     /\ OpsOfKind("RemoveModel") = {}) => Closed(cur)

\* the integrity holds again once the whole list is folded
IntegrityAtTheEnd ==
    (Folded /\ Closed(from_state) /\ Closed(to_state)) => Closed(cur)

\* a model was removed while the foreign key of a surviving model still
\* references its table: the RemoveField that detaches it comes later
RemovedBeforeDetached ==
    /\ dpc = "diffed" /\ pos = 1 /\ ferr = ""
    /\ Closed(from_state) /\ Closed(to_state)
    /\ ops[1].kind = "RemoveModel"
    /\ \E i \in 2 .. Len(ops) :
          /\ ops[i].kind = "RemoveField"
          /\ ops[i].model_name \in DOMAIN cur
          /\ _lc(ops[i].field_name) \in DOMAIN cur[ops[i].model_name].field_states
          /\ cur[ops[i].model_name].field_states[_lc(ops[i].field_name)]
                .options["related_table"] = ops[1].db_table
    /\ ~Closed(cur)

\* a model and the model that references it were removed, dependent first
DependentRemovedFirst ==
    /\ dpc = "diffed" /\ pos = 1 /\ Len(ops) = 2
    /\ ops[1].kind = "RemoveModel" /\ ops[2].kind = "RemoveModel"
    /\ RefersTo(from_state[ops[1].name], from_state[ops[2].name])
    /\ Closed(cur)

(* the registry along the runs of migrate *)

\* C37: from an empty registry and a fixed directory of numbered files,
\* whatever runs of migrate came before (any target, forward or backward,
\* real, fake or sql, ended or failed midway), the recorded migrations are
\* the first names of the ordered list
C37_RecordedIsPrefix ==
    registry = PrefixOf(iter_migration_files(margs.location),
                        Cardinality(registry))

\* a second run, forward to the last file, has failed midway after the second
\* migration was committed
C37_Witness ==
    /\ runs = 2 /\ mpc = "failed" /\ RealRun
    /\ direction = "forward"
    /\ margs.location = MigrationDir
    /\ registry = {Stems[1], Stems[2]}

\* a fake run has gone backward from the last file to the first
FakeBackwardKeepsPrefix ==
    /\ runs = 2 /\ mpc = "done" /\ margs.fake
    /\ direction = "backward"
    /\ applied = MigrationDir
    /\ registry = {Stems[1]}

(* a model whose foreign key references its own table *)

\* an added model of the creation batch references its own table
SelfReferenceAdded ==
    \E m \in AddedNames : InCreationBatch(m) /\ RefersTo(to_state[m], to_state[m])

\* C38: a newly added model whose foreign key references its own table is
\* no dependency cycle: when no two models of the batch refer to each other,
\* diff_states returns and emits its CreateModel
C38_SelfReferenceIsCreated ==
    (dpc # "init" /\ SelfReferenceAdded /\ ~MutualReference) =>
       /\ dpc = "diffed"
       /\ \A m \in AddedNames :
             (InCreationBatch(m) /\ RefersTo(to_state[m], to_state[m])) =>
                \E i \in OpsOfKind("CreateModel") : ops[i].name = m

\* what the code does: a model of the creation batch, or a removed model,
\* that references its own table makes diff_states raise the cycle error
SelfReferenceRaises ==
    (/\ dpc # "init"
     /\ \/ SelfReferenceAdded
        \/ \E m \in RemovedNames :
              /\ RefersTo(from_state[m], from_state[m])
              /\ \A b \in AddedNames : ~ScoreAtLeastThreshold(ScoreOf(m, b)))
        => (dpc = "raised" /\ derr = "cycle" /\ ops = <<>>)

\* a self-referencing foreign key added to a model that exists is emitted
SelfReferenceAddedAsField ==
    /\ dpc = "diffed"
    /\ \E i \in OpsOfKind("AddField") :
          /\ ops[i].field_type \in FK_TYPES
          /\ ops[i].options["related_table"] = ops[i].db_table

\* the diff that adds one model with a foreign key to itself has raised
SelfReferenceRefused ==
    /\ dpc = "raised" /\ derr = "cycle"
    /\ from_state = EmptyProjectState
    /\ DOMAIN to_state = {"Author"}
    /\ RefersTo(to_state["Author"], to_state["Author"])

(* recorder.py under concurrent runs of migrate *)

\* the most runs of migrate at work on the database at once
MaxSessions == 2

Sessions == 1 .. MaxSessions

\* the migration files the concurrent runs share
RecorderFiles == <<Stems[1], Stems[2]>>

\* a plain INSERT, on a table without the UNIQUE constraint
InsertRow(rows, name) == Append(rows, name)

\* INSERT INTO t (name) VALUES ($1) ON CONFLICT (name) DO NOTHING, on the
\* table ensure_table creates with name TEXT NOT NULL UNIQUE: the rows the
\* statement leaves, given the rows it sees
InsertOnConflictDoNothing(rows, name) ==
    IF name \in Range(rows) THEN rows ELSE Append(rows, name)

\* DELETE FROM t WHERE name = $1
DeleteRow(rows, name) == SelectSeq(rows, LAMBDA r : r # name)

\* a session before its run
IdleSession ==
    [pc |-> "idle", fake |-> FALSE, applied |-> {}, direction |-> "noop",
     names |-> <<>>, work |-> <<>>, touched |-> {}, called |-> {}]

RecorderInit ==
    /\ table_rows = <<>>
    /\ sessions = [s \in Sessions |-> IdleSession]
    /\ MigrateIdle
    /\ DiffIdle
    /\ MakeIdle
    /\ ValidateIdle
    /\ UnapplyIdle
    /\ RoundTripIdle

\* another session holds, in a transaction that is still open, a row change
\* under this name: the unique index makes the statement wait for its end
Waits(s, name) ==
    \E t \in Sessions \ {s} :
       sessions[t].pc \in {"tx", "recorded"} /\ name \in sessions[t].touched

\* migrate(fake=, target=) up to the loop: ensure_table, list_applied,
\* the target and plan_route
SessionStart(s) ==
    /\ sessions[s].pc = "idle"
    /\ \E fake \in BOOLEAN, target \in {None} \cup Range(RecorderFiles) :
         LET seen == Range(table_rows)
             pending == SelectSeq(RecorderFiles, LAMBDA n : n \notin seen)
             target_name ==
                 IF target # None
                 THEN resolve_target_name(target, RecorderFiles).name
                 ELSE IF pending # <<>> THEN pending[Len(pending)] ELSE None
             route == IF target_name = None
                      THEN [direction |-> "noop", names |-> <<>>]
                      ELSE plan_route(seen, RecorderFiles, target_name)
         IN sessions' = [sessions EXCEPT ![s] =
                [@ EXCEPT !.pc = IF route.direction = "noop" THEN "done" ELSE "route",
                          !.fake = fake, !.applied = seen,
                          !.direction = route.direction, !.names = route.names]]
    /\ UNCHANGED table_rows
    /\ UNCHANGED <<diffVars, migVars, makeVars, valVars, unVars, rtVars>>

\* the session moves to the next name of its route
Advanced(session) ==
    [session EXCEPT !.names = Tail(@),
                    !.pc = IF Tail(session.names) = <<>> THEN "done" ELSE "route",
                    !.work = <<>>, !.touched = {}]

\* a fake step: record_applied or unrecord_applied on the connection, each
\* statement committed on its own
SessionFake(s) ==
    /\ sessions[s].pc = "route" /\ sessions[s].fake
    /\ ~Waits(s, Head(sessions[s].names))
    /\ table_rows' = IF sessions[s].direction = "forward"
                     THEN InsertOnConflictDoNothing(table_rows, Head(sessions[s].names))
                     ELSE DeleteRow(table_rows, Head(sessions[s].names))
    /\ sessions' = [sessions EXCEPT ![s] =
                      Advanced([@ EXCEPT !.called = @ \cup {Head(sessions[s].names)}])]
    /\ UNCHANGED <<diffVars, migVars, makeVars, valVars, unVars, rtVars>>

\* "async with conn._in_transaction()" is entered
SessionBegin(s) ==
    /\ sessions[s].pc = "route" /\ ~sessions[s].fake
    /\ sessions' = [sessions EXCEPT ![s].pc = "tx", ![s].work = <<>>]
    /\ UNCHANGED table_rows
    /\ UNCHANGED <<diffVars, migVars, makeVars, valVars, unVars, rtVars>>

\* the rows a statement has added to the rows it saw
AddedRows(seen, left) == SubSeq(left, Len(seen) + 1, Len(left))

\* Migration.apply or unapply has returned; record_applied or
\* unrecord_applied runs in the transaction, on the rows committed by now:
\* work keeps the rows the INSERT has added, not yet committed
SessionRecord(s) ==
    /\ sessions[s].pc = "tx"
    /\ ~Waits(s, Head(sessions[s].names))
    /\ sessions' = [sessions EXCEPT ![s] =
          [@ EXCEPT !.pc = "recorded",
                    !.work = IF sessions[s].direction = "forward"
                             THEN AddedRows(table_rows,
                                     InsertOnConflictDoNothing(table_rows,
                                        Head(sessions[s].names)))
                             ELSE <<>>,
                    !.touched = {Head(sessions[s].names)},
                    !.called = @ \cup {Head(sessions[s].names)}]]
    /\ UNCHANGED table_rows
    /\ UNCHANGED <<diffVars, migVars, makeVars, valVars, unVars, rtVars>>

\* the transaction commits: its row change reaches the table
SessionCommit(s) ==
    /\ sessions[s].pc = "recorded"
    /\ table_rows' = IF sessions[s].direction = "forward"
                     THEN table_rows \o sessions[s].work
                     ELSE DeleteRow(table_rows, Head(sessions[s].names))
    /\ sessions' = [sessions EXCEPT ![s] = Advanced(@)]
    /\ UNCHANGED <<diffVars, migVars, makeVars, valVars, unVars, rtVars>>

\* a statement of the migration raises, or the connection is lost before the
\* commit: the transaction is rolled back and the run ends
SessionFails(s) ==
    /\ sessions[s].pc \in {"tx", "recorded"}
    /\ sessions' = [sessions EXCEPT ![s].pc = "failed", ![s].work = <<>>,
                                    ![s].touched = {}]
    /\ UNCHANGED table_rows
    /\ UNCHANGED <<diffVars, migVars, makeVars, valVars, unVars, rtVars>>

RecorderNext ==
    \E s \in Sessions :
       \/ SessionStart(s)
       \/ SessionFake(s)
       \/ SessionBegin(s)
       \/ SessionRecord(s)
       \/ SessionCommit(s)
       \/ SessionFails(s)

SpecRecorder == RecorderInit /\ [][RecorderNext]_vars

\* C39: under any interleaving of record_applied calls, two concurrent runs
\* of migrate that both saw the migration as pending included, the registry
\* holds each migration name at most once
C39_EachNameOnce ==
    \A i, j \in DOMAIN table_rows : table_rows[i] = table_rows[j] => i = j

\* two runs that both saw the first migration as pending have both called
\* record_applied for it and ended; the registry holds it once
C39_Witness ==
    /\ \A s \in {1, 2} :
          /\ sessions[s].pc = "done"
          /\ sessions[s].direction = "forward"
          /\ sessions[s].applied = {}
          /\ Stems[1] \in sessions[s].called
    /\ Cardinality({i \in DOMAIN table_rows : table_rows[i] = Stems[1]}) = 1

\* a real run and a fake run have both recorded the same migration
RealAndFakeRecordedOnce ==
    /\ sessions[1].pc = "done" /\ ~sessions[1].fake
    /\ sessions[2].pc = "done" /\ sessions[2].fake
    /\ sessions[1].applied = {} /\ sessions[2].applied = {}
    /\ Stems[2] \in sessions[1].called \cap sessions[2].called
    /\ table_rows = <<Stems[1], Stems[2]>>

============================================================================
